---------------------------- MODULE Spec2Model ----------------------------
(***************************************************************************)
(* A model of OpenGLVideo (libs/libmythtv/openglvideo.cpp): the chain of   *)
(* OpenGLFilter stages, the GPU handles it owns, and the operations that   *)
(* reconfigure it.                                                         *)
(*                                                                         *)
(* The instance is one record (its fields carry the names of the C++       *)
(* members); the member functions are operators from record to record, so  *)
(* that a function calling another (Init -> CheckResize -> AddFilter ->    *)
(* OptimiseFilters) is the composition of the operators.  The record also  *)
(* carries the ledger of the GL context (the names in use, and the Delete  *)
(* calls made on names that denote nothing) and a log of the calls made by *)
(* the last operation, which the properties read.                          *)
(*                                                                         *)
(* Four specifications:  Spec, the reconfiguration of the graph with       *)
(* creation calls that the context may refuse; SpecOpts, the feature       *)
(* negotiation of Init over option strings; SpecFrames, the upload and     *)
(* the drawing of frames; SpecDraw, the drawing with every scan type and   *)
(* field order on the graphs of a context that refuses nothing.            *)
(***************************************************************************)
EXTENDS Integers, Sequences, FiniteSets, TLC

(***************************************************************************)
(* Bounds of the model.                                                    *)
(***************************************************************************)
\* Creation calls that the context refuses in one run.
MaxFail == 1
\* Length of the option strings that Init is given in SpecOpts.
MaxOptLen == 5
\* Frames that pass the checks of UpdateInputFrame in SpecFrames.
MaxUploads == 3

(***************************************************************************)
(* GLFeatures (mythrender_opengl.h): one bit per feature.                  *)
(***************************************************************************)
kGLFeatNone    == 0
kGLExtRect     == 1
kGLExtFragProg == 2
kGLExtFBufObj  == 4
kGLExtPBufObj  == 8
kGLNVFence     == 16
kGLAppleFence  == 32
kGLMesaYCbCr   == 64
kGLMaxFeat     == 128

\* Bitwise AND of two non-negative integers (the & of uint).
RECURSIVE BitAnd(_, _)
BitAnd(a, b) ==
    IF a = 0 \/ b = 0 THEN 0
    ELSE (a % 2) * (b % 2) + 2 * BitAnd(a \div 2, b \div 2)

\* (mask & bit) as a condition.
HasFeat(mask, bit) == BitAnd(mask, bit) # 0

\* The bits of a mask, as a set.
FeatBits == {kGLExtRect, kGLExtFragProg, kGLExtFBufObj, kGLExtPBufObj,
             kGLNVFence, kGLAppleFence, kGLMesaYCbCr}
BitsOf(mask) == {b \in FeatBits : HasFeat(mask, b)}

(***************************************************************************)
(* Option strings.  A QString is a sequence of atoms: a word, "=" or ",".  *)
(* Two adjacent words read as their concatenation, so `contains' of a word *)
(* is membership and equality with a word is equality with the one-atom    *)
(* sequence.                                                               *)
(***************************************************************************)
OptAtoms == {"opengloptions", "=", ",", "nopbo", "NOFBO"}

\* QString::toLower on one atom.
ToLowerAtom(a) ==
    CASE a = "NOFBO" -> "nofbo"
      [] a = "OPENGLOPTIONS" -> "opengloptions"
      [] OTHER -> a

ToLower(str) == [i \in 1..Len(str) |-> ToLowerAtom(str[i])]

\* QString::contains(word)
Contains(str, word) == \E i \in 1..Len(str) : str[i] = word

\* Position of the first occurrence of sep in str, 0 when there is none.
FirstIndex(str, sep) ==
    IF Contains(str, sep)
    THEN CHOOSE i \in 1..Len(str) :
            str[i] = sep /\ \A j \in 1..(i-1) : str[j] # sep
    ELSE 0

\* QString::split(","): the fields between the separators, empty ones kept.
RECURSIVE Split(_, _)
Split(str, sep) ==
    LET k == FirstIndex(str, sep) IN
    IF k = 0 THEN <<str>>
    ELSE <<SubSeq(str, 1, k-1)>> \o Split(SubSeq(str, k+1, Len(str)), sep)

\* QString::section('=', 0, 0): the text before the first separator.
SectionFirst(str, sep) ==
    LET k == FirstIndex(str, sep) IN
    IF k = 0 THEN str ELSE SubSeq(str, 1, k-1)

\* QString::section('=', 1): the text after the first separator.
SectionRest(str, sep) ==
    LET k == FirstIndex(str, sep) IN
    IF k = 0 THEN <<>> ELSE SubSeq(str, k+1, Len(str))

\* ret -= bit, applied when the option names the flag.
ClearIf(ret, opts, flag, bit) == IF Contains(opts, flag) THEN ret - bit ELSE ret

\* The body of the "opengloptions" branch of ParseOptions.
ApplyDisableFlags(ret, opts) ==
    LET r1 == IF Contains(opts, "nofence")
              THEN (ret - kGLAppleFence) - kGLNVFence ELSE ret
        r2 == ClearIf(r1, opts, "nopbo",   kGLExtPBufObj)
        r3 == ClearIf(r2, opts, "nofbo",   kGLExtFBufObj)
        r4 == ClearIf(r3, opts, "nofrag",  kGLExtFragProg)
        r5 == ClearIf(r4, opts, "norect",  kGLExtRect)
    IN  ClearIf(r5, opts, "noycbcr", kGLMesaYCbCr)

\* The loop of ParseOptions over the fields of the list, from field i on:
\* the first field named "opengloptions" decides the result.
RECURSIVE ParseFrom(_, _, _)
ParseFrom(list, i, ret) ==
    IF i > Len(list) THEN ret
    ELSE LET name == ToLower(SectionFirst(list[i], "="))
             opts == ToLower(SectionRest(list[i], "="))
         IN  IF name = <<"opengloptions">>
             THEN ApplyDisableFlags(ret, opts)
             ELSE ParseFrom(list, i + 1, ret)

\* OpenGLVideo::ParseOptions
ParseOptions(options) == ParseFrom(Split(options, ","), 1, kGLMaxFeat - 1)


(***************************************************************************)
(* OpenGLFilterType and DisplayBuffer (openglvideo.h).  filters is a       *)
(* std::map keyed by the type, so the pipeline order is the order of the   *)
(* enum values.                                                            *)
(***************************************************************************)
kGLFilterNone    == 0
kGLFilterYUV2RGB == 1
kGLFilterResize  == 2
kGLFilterBicubic == 3
FilterTypes == {kGLFilterYUV2RGB, kGLFilterResize, kGLFilterBicubic}

kDefaultBuffer     == "kDefaultBuffer"
kFrameBufferObject == "kFrameBufferObject"

\* A key that filters does not hold.
NoFilter ==
    [present |-> FALSE, isNull |-> FALSE, fragmentPrograms |-> <<>>,
     numInputs |-> 0, frameBuffers |-> <<>>, frameBufferTextures |-> <<>>,
     outputBuffer |-> "unset"]

\* new OpenGLFilter(): the vectors empty, outputBuffer not yet assigned.
NewFilter ==
    [present |-> TRUE, isNull |-> FALSE, fragmentPrograms |-> <<>>,
     numInputs |-> 0, frameBuffers |-> <<>>, frameBufferTextures |-> <<>>,
     outputBuffer |-> "unset"]

\* filters.count(f), filters.size(), filters.empty()
Count(s, f) == IF s.filters[f].present THEN 1 ELSE 0
FilterKeys(s) == {f \in FilterTypes : s.filters[f].present}
FiltersSize(s) == Cardinality(FilterKeys(s))

\* The keys of filters in ascending (begin..end) and descending (rbegin..rend) order.
RECURSIVE KeysUp(_, _)
KeysUp(s, f) ==
    IF f > kGLFilterBicubic THEN <<>>
    ELSE (IF s.filters[f].present THEN <<f>> ELSE <<>>) \o KeysUp(s, f + 1)
RECURSIVE KeysDown(_, _)
KeysDown(s, f) ==
    IF f < kGLFilterYUV2RGB THEN <<>>
    ELSE (IF s.filters[f].present THEN <<f>> ELSE <<>>) \o KeysDown(s, f - 1)
FilterOrder(s) == KeysUp(s, kGLFilterYUV2RGB)
ReverseOrder(s) == KeysDown(s, kGLFilterBicubic)

(***************************************************************************)
(* The GL context (MythRenderOpenGL), as far as the instance sees it.      *)
(* names[h] is the kind of the object that the name h denotes, or "free";  *)
(* texfilt[h] is the filter last set on a texture.  A creation call takes  *)
(* the lowest free name, as glGen* does, or returns 0 when the context     *)
(* refuses it: the creation calls of the running operation are numbered    *)
(* (no operation makes more than 8), `failing' holds the numbers of those  *)
(* to refuse, and `refusals' counts the calls refused so far, which        *)
(* MaxFail bounds.  A Delete call on a name that denotes nothing is        *)
(* recorded in badDelete.  texdata[h] is the number of the frame whose     *)
(* picture the texture h holds, 0 when nothing was ever loaded into it.    *)
(* The context is made current by an OpenGLLocker, which lives to the end  *)
(* of the member function that constructs it: locked says that one is      *)
(* alive, and outsideLock that a call reached the context without one.     *)
(*                                                                         *)
(* An operator that needs an intermediate result more than once hands it   *)
(* to a second operator as a parameter.                                    *)
(***************************************************************************)
CallNumbers == 1..8

GL_LINEAR  == "GL_LINEAR"
GL_NEAREST == "GL_NEAREST"

\* The lowest name that denotes nothing.
FreeName(s) ==
    IF \E h \in 1..Len(s.names) : s.names[h] = "free"
    THEN CHOOSE h \in 1..Len(s.names) :
            s.names[h] = "free" /\ \A g \in 1..(h-1) : s.names[g] # "free"
    ELSE Len(s.names) + 1

\* seq with seq[h] = x, grown by one element when h is Len(seq) + 1.
Put(seq, h, x) == IF h > Len(seq) THEN Append(seq, x) ELSE [seq EXCEPT ![h] = x]

\* The length of names without the free names at its end.
RECURSIVE TrimLen(_, _)
TrimLen(names, n) ==
    IF n > 0 /\ names[n] = "free" THEN TrimLen(names, n - 1) ELSE n

\* OpenGLLocker ctx_lock(gl_context)
Lock(s) == [s EXCEPT !.locked = TRUE]

\* A call that reaches the context.
GpuCall(s) == IF s.locked THEN s ELSE [s EXCEPT !.outsideLock = TRUE]

\* The n-th creation call of the operation, h being the lowest free name.
CreateNamed(s, kind, n, h) ==
    IF n \in s.failing /\ s.refusals < MaxFail
    THEN [s EXCEPT !.calls = n, !.ret = 0, !.refused = TRUE, !.refusals = @ + 1]
    ELSE [s EXCEPT !.calls = n,
                   !.names = Put(@, h, kind),
                   !.texfilt = Put(@, h, GL_LINEAR),
                   !.texdata = Put(@, h, 0),
                   !.ret = h]

CreateHandle(s, kind) == CreateNamed(GpuCall(s), kind, s.calls + 1, FreeName(s))

\* gl_context->CreateTexture / CreateHelperTexture / CreateFragmentProgram
CreateTexture(s) == CreateHandle(s, "texture")
CreateHelperTexture(s) == CreateHandle(s, "texture")
CreateFragmentProgram(s) == CreateHandle(s, "program")

\* gl_context->CreateFrameBuffer(fb, tex): needs a texture to attach.
CreateFrameBuffer(s, tex) ==
    IF tex = 0 THEN [s EXCEPT !.ret = 0] ELSE CreateHandle(s, "framebuffer")

\* The names that denote an object.
IsLive(s, h) == h \in 1..Len(s.names) /\ s.names[h] # "free"

\* names and texfilt cut to their first n elements.
CutNames(s, freed, n) ==
    [s EXCEPT !.names = SubSeq(freed, 1, n), !.texfilt = SubSeq(@, 1, n),
              !.texdata = SubSeq(@, 1, n)]

\* h is free again.
FreeHandle(s, freed) == CutNames(s, freed, TrimLen(freed, Len(freed)))

\* gl_context->DeleteTexture / DeleteFrameBuffer / DeleteFragmentProgram:
\* the name 0 is ignored.
DeleteHandle(s, h) ==
    IF h = 0 THEN s
    ELSE IF ~IsLive(s, h) THEN [GpuCall(s) EXCEPT !.badDelete = @ \cup {h}]
    ELSE FreeHandle(GpuCall(s), [s.names EXCEPT ![h] = "free"])

\* gl_context->SetTextureFilters(tex, filt, wrap)
SetTextureFilter(s, h, filt) ==
    IF ~IsLive(s, h) THEN GpuCall(s) ELSE [GpuCall(s) EXCEPT !.texfilt[h] = filt]

\* The elements of a vector<GLuint>, as a set.
Range(v) == {v[i] : i \in 1..Len(v)}

(***************************************************************************)
(* The log of the running operation: one record per call of interest.     *)
(***************************************************************************)
LogEv(s, e) == [s EXCEPT !.log = Append(@, e)]

\* What an event remembers of the frames the instance holds.
FrameSnap(s) == [inputTextures |-> s.inputTextures,
                 referenceTextures |-> s.referenceTextures,
                 refsNeeded |-> s.refsNeeded,
                 inputUpdated |-> s.inputUpdated,
                 currentFrameNum |-> s.currentFrameNum,
                 texdata |-> s.texdata]

\* What an event remembers of the instance.
Snap(s) == [filters |-> s.filters, names |-> s.names,
            helper |-> s.helperTexture, refusals |-> s.refusals,
            badDelete |-> s.badDelete]

(***************************************************************************)
(* Texture lists.                                                          *)
(***************************************************************************)
\* OpenGLVideo::DeleteTextures, on a vector given by value; the caller clears it.
RECURSIVE DeleteAll(_, _, _)
DeleteAll(s, v, i) ==
    IF i > Len(v) THEN s ELSE DeleteAll(DeleteHandle(s, v[i]), v, i + 1)

\* OpenGLVideo::SetTextureFilters
RECURSIVE SetTextureFilters(_, _, _, _)
SetTextureFilters(s, v, i, filt) ==
    IF i > Len(v) THEN s
    ELSE SetTextureFilters(SetTextureFilter(s, v[i], filt), v, i + 1, filt)

\* The body of the loop of SetFiltering: last_filter counts the stages seen.
SetStageFiltering(s, f, last_filter) ==
    IF last_filter = 1
    THEN SetTextureFilters(s, s.filters[f].frameBufferTextures, 1, GL_LINEAR)
    ELSE IF last_filter > 1
         THEN SetTextureFilters(s, s.filters[f].frameBufferTextures, 1, GL_NEAREST)
         ELSE s

\* The loop of SetFiltering over rbegin..rend.
RECURSIVE SetFilteringFrom(_, _, _)
SetFilteringFrom(s, keys, i) ==
    IF i > Len(keys) THEN s
    ELSE SetFilteringFrom(SetStageFiltering(s, keys[i], i - 1), keys, i + 1)

\* OpenGLVideo::SetFiltering
SetFiltering(s) ==
    IF FiltersSize(s) = 0 \/ FiltersSize(s) = 1
    THEN SetTextureFilters(s, s.inputTextures, 1, GL_LINEAR)
    ELSE SetFilteringFrom(SetTextureFilters(s, s.inputTextures, 1, GL_NEAREST),
                          ReverseOrder(s), 1)

(***************************************************************************)
(* Frame buffers.                                                          *)
(***************************************************************************)
\* The end of AddFrameBuffer: b is the state after CreateFrameBuffer.
FinishFrameBuffer(b, texture) ==
    IF b.ret # 0
    THEN [b EXCEPT !.ok = TRUE, !.ret2 = texture]
    ELSE [DeleteHandle(b, texture) EXCEPT !.ok = FALSE]

\* AddFrameBuffer from CreateFrameBuffer on: t is the state after CreateTexture.
AttachFrameBuffer(t) == FinishFrameBuffer(CreateFrameBuffer(t, t.ret), t.ret)

\* OpenGLVideo::AddFrameBuffer: ok, with the pair in ret (framebuffer) and
\* ret2 (texture).
AddFrameBuffer(s) ==
    IF ~HasFeat(s.gl_features, kGLExtFBufObj)
    THEN [s EXCEPT !.ok = FALSE]
    ELSE AttachFrameBuffer(CreateTexture(s))

\* for (i = 0; i < buffers_diff; i++) of OptimiseFilters: stops at the first
\* AddFrameBuffer that fails.  a is the state after AddFrameBuffer.
RECURSIVE AddBuffers(_, _, _)
PushBuffer(a, f, n) ==
    IF ~a.ok THEN a
    ELSE AddBuffers([a EXCEPT !.filters[f].frameBuffers = Append(@, a.ret),
                              !.filters[f].frameBufferTextures = Append(@, a.ret2)],
                    f, n - 1)
AddBuffers(s, f, n) ==
    IF n <= 0 THEN [s EXCEPT !.ok = TRUE] ELSE PushBuffer(AddFrameBuffer(s), f, n)

\* The body of the freeing loop of OptimiseFilters: the last pair goes.
PopBuffer(s, f) ==
    [DeleteHandle(DeleteHandle(s, s.filters[f].frameBuffers[
                                      Len(s.filters[f].frameBuffers)]),
                  s.filters[f].frameBufferTextures[
                      Len(s.filters[f].frameBufferTextures)])
        EXCEPT !.filters[f].frameBuffers = SubSeq(@, 1, Len(@) - 1),
               !.filters[f].frameBufferTextures = SubSeq(@, 1, Len(@) - 1)]

\* for (i = 0; i > buffers_diff; i--) of OptimiseFilters.
RECURSIVE DropBuffers(_, _, _)
DropBuffers(s, f, n) ==
    IF n <= 0 THEN s ELSE DropBuffers(PopBuffer(s, f), f, n - 1)

\* The two branches on buffers_diff (int buffers_diff = needed - have).
Reconcile(s, f, buffers_diff) ==
    IF buffers_diff > 0 THEN AddBuffers(s, f, buffers_diff)
    ELSE IF buffers_diff < 0
         THEN [DropBuffers(s, f, 0 - buffers_diff) EXCEPT !.ok = TRUE]
         ELSE [s EXCEPT !.ok = TRUE]

\* LinkFilter with the allocation of the frame buffers forgotten.
LinkFilterNoBuffers(s, f, buffers_needed) ==
    [s EXCEPT !.filters[f].outputBuffer = kFrameBufferObject, !.ok = TRUE]

\* The body of the loop of OptimiseFilters for a stage that is not the last.
LinkFilter(s, f, buffers_needed) ==
    Reconcile([s EXCEPT !.filters[f].outputBuffer = kFrameBufferObject],
              f, buffers_needed - Len(s.filters[f].frameBuffers))

\* The loop of OptimiseFilters from the last stage to the first; l is the
\* state after the body for keys[i].
RECURSIVE OptimiseFrom(_, _, _, _, _)
OptimiseNext(l, keys, i) ==
    IF ~l.ok THEN l
    ELSE OptimiseFrom(l, keys, i + 1, l.filters[keys[i]].numInputs, FALSE)
OptimiseFrom(s, keys, i, buffers_needed, last_filter) ==
    IF i > Len(keys) THEN [SetFiltering(s) EXCEPT !.ok = TRUE]
    ELSE IF ~last_filter
         THEN OptimiseNext(LinkFilter(s, keys[i], buffers_needed), keys, i)
         ELSE OptimiseFrom([s EXCEPT !.filters[keys[i]].outputBuffer = kDefaultBuffer],
                           keys, i + 1, s.filters[keys[i]].numInputs, FALSE)

LogOptimise(r) == LogEv(r, [ev |-> "OptimiseFilters", ok |-> r.ok, post |-> Snap(r)])

\* OpenGLVideo::OptimiseFilters
OptimiseFilters(s) == LogOptimise(OptimiseFrom(s, ReverseOrder(s), 1, 1, TRUE))

(***************************************************************************)
(* Adding and removing stages.                                             *)
(***************************************************************************)
\* The number of (framebuffer, texture) pairs of every stage.
BufferCounts(s) == [f \in FilterTypes |-> Len(s.filters[f].frameBuffers)]

\* lastAdd remembers the last stage added and the buffer counts before it,
\* until the graph changes again.
NoAdd == [filter |-> kGLFilterNone, counts |-> [f \in FilterTypes |-> 0]]

\* The GL names a stage holds.
FilterHandles(filt) ==
    Range(filt.fragmentPrograms) \cup Range(filt.frameBuffers)
        \cup Range(filt.frameBufferTextures)

\* s is the state when RemoveFilter was called, r the state it leaves.
LogRemove(s, r, filter) ==
    LogEv(r, [ev |-> "RemoveFilter", filter |-> filter,
              handles |-> FilterHandles(s.filters[filter]),
              held |-> Len(s.filters[filter].fragmentPrograms)
                         + Len(s.filters[filter].frameBuffers)
                         + Len(s.filters[filter].frameBufferTextures),
              wereLive |-> {h \in FilterHandles(s.filters[filter]) : IsLive(s, h)},
              stillLive |-> {h \in FilterHandles(s.filters[filter]) : IsLive(r, h)},
              badBefore |-> s.badDelete,
              badAfter |-> r.badDelete,
              countAfter |-> Count(r, filter)])

\* DeleteFilterHandles with the loop over the frame buffers forgotten.
DeleteFilterHandlesNoBuffers(s, filt) ==
    DeleteAll(DeleteAll(s, filt.fragmentPrograms, 1), filt.frameBufferTextures, 1)

\* The deletions of RemoveFilter: the programs, the frame buffers, the textures.
DeleteFilterHandles(s, filt) ==
    DeleteAll(DeleteAll(DeleteAll(s, filt.fragmentPrograms, 1),
                        filt.frameBuffers, 1),
              filt.frameBufferTextures, 1)

\* OpenGLVideo::RemoveFilter.  The entry stays in the map, holding NULL:
\* the callers erase it.
RemoveFilter(s, filter) ==
    IF Count(s, filter) = 0 THEN [s EXCEPT !.ok = TRUE]
    ELSE IF s.filters[filter].isNull
    THEN [s EXCEPT !.ub = @ \cup {"null filter dereferenced"}, !.ok = TRUE]
    ELSE LogRemove(s,
                   [DeleteFilterHandles(s, s.filters[filter]) EXCEPT
                       !.filters[filter] = [NoFilter EXCEPT !.present = TRUE,
                                                            !.isNull = TRUE],
                       !.ok = TRUE],
                   filter)

\* filters.erase(filter), as every caller of RemoveFilter does next.
Erase(s, filter) ==
    IF Count(s, filter) = 0 THEN s
    ELSE IF s.lastAdd.filter = filter
         THEN LogEv([s EXCEPT !.filters[filter] = NoFilter, !.lastAdd = NoAdd],
                    [ev |-> "RemovedAfterAdd", filter |-> filter,
                     remaining |-> FilterKeys(s) \ {filter},
                     before |-> s.lastAdd.counts])
         ELSE [s EXCEPT !.filters[filter] = NoFilter, !.lastAdd = NoAdd]

\* 64 doubled until it is no less than n.
RECURSIVE PowerOfTwo(_, _)
PowerOfTwo(w, n) == IF w < n THEN PowerOfTwo(w * 2, n) ELSE w

\* OpenGLVideo::GetTextureSize
GetTextureSize(s, size) ==
    IF s.textureRects THEN size
    ELSE [w |-> PowerOfTwo(64, size.w), h |-> PowerOfTwo(64, size.h)]

(***************************************************************************)
(* Fragment program text.  A program is the sequence of the static strings *)
(* it is put together from, and the values that ret.replace() writes over  *)
(* the placeholders %1..%7 that occur in them.  A number is kept as the    *)
(* fraction <<numerator, denominator>> that setNum() prints.               *)
(***************************************************************************)
kScan_Interlaced   == "kScan_Interlaced"
kScan_Intr2ndField == "kScan_Intr2ndField"
kScan_Progressive  == "kScan_Progressive"

\* deint_bit and need_tex of GetProgramString, tmp_field being 0 or 1.
DeintBit(deint, tmp_field) ==
    IF deint \in {"openglbobdeint", "openglonefield", "opengldoubleratefieldorder"}
    THEN [bit |-> IF tmp_field = 0 THEN "bobdeint[0]" ELSE "bobdeint[1]",
          need_tex |-> TRUE]
    ELSE IF deint \in {"opengllinearblend", "opengldoubleratelinearblend"}
    THEN [bit |-> IF tmp_field = 0 THEN "linearblend[0]" ELSE "linearblend[1]",
          need_tex |-> tmp_field # 0]
    ELSE IF deint \in {"openglkerneldeint", "opengldoubleratekerneldeint"}
    THEN [bit |-> IF tmp_field = 0 THEN "kerneldeint[0]" ELSE "kerneldeint[1]",
          need_tex |-> tmp_field # 0]
    ELSE IF deint \in {"openglyadif", "opengldoublerateyadif"}
    THEN [bit |-> IF tmp_field = 0 THEN "yadif[0]" ELSE "yadif[1]",
          need_tex |-> FALSE]
    ELSE [bit |-> "", need_tex |-> TRUE]

\* case kGLFilterYUV2RGB of GetProgramString, d being DeintBit(..).
YUV2RGBPieces(deint, d) ==
    <<"attrib_fast">>
    \o (IF deint # "" THEN <<"var_deint">> ELSE <<>>)
    \o <<"var_fast">>
    \o (IF d.need_tex THEN <<"tex_fast">> ELSE <<>>)
    \o (IF d.bit # "" THEN <<d.bit>> ELSE <<>>)
    \o <<"end_fast">>

\* The strings GetProgramString appends to ret before the replacements.
ProgramPieces(name, deint, field) ==
    <<"!!ARBfp1.0">>
    \o (IF name = kGLFilterYUV2RGB
        THEN YUV2RGBPieces(deint,
                 IF deint # ""
                 THEN DeintBit(deint, IF field = kScan_Intr2ndField THEN 1 ELSE 0)
                 ELSE [bit |-> "", need_tex |-> TRUE])
        ELSE IF name = kGLFilterBicubic THEN <<"bicubic">>
        ELSE <<>>)

\* The placeholders that occur in one of the static strings.
PlaceholdersIn(piece) ==
    IF piece = "tex_fast" THEN {1}
    ELSE IF piece = "bicubic" THEN {3, 5, 6, 7}
    ELSE IF piece \in {"bobdeint[0]", "bobdeint[1]",
                       "linearblend[0]", "linearblend[1]"} THEN {1, 2, 3}
    ELSE IF piece \in {"kerneldeint[0]", "kerneldeint[1]"} THEN {1, 2, 3, 4}
    ELSE IF piece \in {"yadif[0]", "yadif[1]"} THEN {1, 2, 3, 4, 5}
    ELSE {}

\* lineHeight and colWidth are 1 unless the texture is a power-of-two one.
Normalised(s) == ~s.textureRects /\ s.inputTextureSize.h > 0

\* A replacement: a word, or the fraction num/den.
Word(str) == [str |-> str, num |-> 0, den |-> 0]
Fraction(num, den) == [str |-> "", num |-> num, den |-> den]

\* The value written over the placeholder %k.
Replacement(s, k) ==
    CASE k = 1 -> Word(IF s.textureRects THEN "RECT" ELSE "2D")
      [] k = 2 -> IF Normalised(s) THEN Fraction(s.inputTextureSize.h, 2)
                  ELSE Fraction(1, 2)
      [] k = 3 -> IF Normalised(s) THEN Fraction(1, s.inputTextureSize.h)
                  ELSE Fraction(1, 1)
      [] k = 4 -> IF Normalised(s) THEN Fraction(2, s.inputTextureSize.h)
                  ELSE Fraction(2, 1)
      [] k = 5 -> IF Normalised(s) THEN Fraction(1, s.inputTextureSize.w)
                  ELSE Fraction(1, 1)
      [] k = 6 -> Fraction(GetTextureSize(s, s.video_dim).w, 1)
      [] k = 7 -> Fraction(GetTextureSize(s, s.video_dim).h, 1)

\* The replacements made in a program of the given pieces: %k is left as it
\* is, Word("%"), where no piece has it.
Replacements(s, pieces) ==
    [k \in 1..7 |->
        IF \E i \in 1..Len(pieces) : k \in PlaceholdersIn(pieces[i])
        THEN Replacement(s, k) ELSE Word("%")]

\* GetProgramString whose text tells whether deinterlacing is switched on.
GetProgramStringStateful(s, name, deint, field) ==
    [pieces |-> Append(ProgramPieces(name, deint, field),
                       IF s.hardwareDeinterlacing THEN "END deinterlacing"
                       ELSE "END"),
     replaced |-> Replacements(s, ProgramPieces(name, deint, field))]

\* OpenGLVideo::GetProgramString
GetProgramString(s, name, deint, field) ==
    [pieces |-> Append(ProgramPieces(name, deint, field), "END"),
     replaced |-> Replacements(s, ProgramPieces(name, deint, field))]

\* What is kept of a call of GetProgramString: its arguments, the texture
\* geometry it was made in, and the text it returned.
Generated(s, name, deint, field, text) ==
    [ev |-> "GetProgramString", name |-> name, deint |-> deint, field |-> field,
     textureRects |-> s.textureRects, inputTextureSize |-> s.inputTextureSize,
     video_dim |-> s.video_dim, text |-> text]

\* QString program = GetProgramString(name, deint, field);
WithProgramString(s, name, deint, field) ==
    LogEv(s, Generated(s, name, deint, field,
                       GetProgramString(s, name, deint, field)))

\* OpenGLVideo::AddFragmentProgram: the program in ret, 0 on failure.
AddFragmentProgram(s, name, deint, field) ==
    IF ~HasFeat(s.gl_features, kGLExtFragProg)
    THEN [s EXCEPT !.ret = 0]
    ELSE CreateFragmentProgram(WithProgramString(s, name, deint, field))

\* if (!success) of AddFilter: RemoveFilter(filter); filters.erase(filter);
\* delete temp.  When temp was put into the map, RemoveFilter has deleted
\* it already.
FailFilter(s, filter, inserted) ==
    [Erase(RemoveFilter(s, filter), filter) EXCEPT
        !.ok = FALSE,
        !.lastAdd = NoAdd,
        !.ub = IF inserted THEN @ \cup {"filter deleted twice"} ELSE @]

\* The end of AddFilter: o is the state after OptimiseFilters, s0 the state
\* when AddFilter was called.
FinishFilter(o, filter, s0) ==
    IF o.ok
    THEN [o EXCEPT !.ok = TRUE,
                   !.lastAdd = [filter |-> filter, counts |-> BufferCounts(s0)]]
    ELSE FailFilter(o, filter, TRUE)

\* if (success) of AddFilter: temp goes into the map.
InsertFilter(s, filter, temp, s0) ==
    FinishFilter(OptimiseFilters(
                     [s EXCEPT !.filters[filter] =
                                   [temp EXCEPT !.outputBuffer = kDefaultBuffer]]),
                 filter, s0)

\* After AddFragmentProgram: p.ret is the program.
WithProgram(p, filter, s0) ==
    IF p.ret = 0 THEN FailFilter(p, filter, FALSE)
    ELSE InsertFilter(p, filter,
                      [NewFilter EXCEPT !.numInputs = 1,
                                        !.fragmentPrograms = <<p.ret>>], s0)

\* AddFilter from the fragment program on; success is false when the helper
\* texture could not be created.
AddProgram(s, filter, success, s0) ==
    IF ~success THEN FailFilter(s, filter, FALSE)
    ELSE IF filter # kGLFilterNone /\ filter # kGLFilterResize
         THEN WithProgram(AddFragmentProgram(s, filter, "", kScan_Progressive), filter, s0)
         ELSE InsertFilter(s, filter, [NewFilter EXCEPT !.numInputs = 1], s0)

\* After CreateHelperTexture: c.ret is the texture.
WithHelper(c, filter, s0) ==
    AddProgram([c EXCEPT !.helperTexture = c.ret], filter, c.ret # 0, s0)

\* The part of AddFilter after the early returns.
BuildFilter(s, filter) ==
    IF filter = kGLFilterBicubic
    THEN WithHelper(CreateHelperTexture(IF s.helperTexture # 0
                                        THEN DeleteHandle(s, s.helperTexture)
                                        ELSE s),
                    filter, s)
    ELSE AddProgram(s, filter, TRUE, s)

LogAddFilter(s, r, filter) ==
    LogEv(r, [ev |-> "AddFilter", filter |-> filter,
              wasPresent |-> Count(s, filter) = 1, ok |-> r.ok,
              callsBefore |-> s.calls, callsAfter |-> r.calls,
              pre |-> Snap(s), post |-> Snap(r)])

\* TryAddFilter without the early return for a type that is present.
TryAddFilterAgain(s, filter) ==
    IF /\ ~HasFeat(s.gl_features, kGLExtFBufObj)
       /\ filter = kGLFilterResize
       /\ FiltersSize(s) # 0
    THEN [s EXCEPT !.ok = FALSE]
    ELSE IF /\ ~(HasFeat(s.gl_features, kGLExtFragProg) /\
                 HasFeat(s.gl_features, kGLExtFBufObj))
            /\ filter = kGLFilterBicubic
    THEN [s EXCEPT !.ok = FALSE]
    ELSE BuildFilter(s, filter)

\* AddFilter without its log entry.
TryAddFilter(s, filter) ==
    IF Count(s, filter) = 1 THEN [s EXCEPT !.ok = TRUE]
    ELSE IF /\ ~HasFeat(s.gl_features, kGLExtFBufObj)
            /\ filter = kGLFilterResize
            /\ FiltersSize(s) # 0
    THEN [s EXCEPT !.ok = FALSE]
    ELSE IF /\ ~(HasFeat(s.gl_features, kGLExtFragProg) /\
                 HasFeat(s.gl_features, kGLExtFBufObj))
            /\ filter = kGLFilterBicubic
    THEN [s EXCEPT !.ok = FALSE]
    ELSE BuildFilter(s, filter)

\* OpenGLVideo::AddFilter
AddFilter(s, filter) == LogAddFilter(s, TryAddFilter(s, filter), filter)

(***************************************************************************)
(* The resize decision.                                                    *)
(***************************************************************************)
LogCheckResize(s, r, deinterlacing, allow) ==
    LogEv(r, [ev |-> "CheckResize", deinterlacing |-> deinterlacing,
              allow |-> allow, pre |-> Snap(s), post |-> Snap(r)])

\* RemoveFilter(filter); filters.erase(filter);
RemoveAndErase(s, filter) == Erase(RemoveFilter(s, filter), filter)

\* Resize with the removal of the resize stage forgotten in the first branch.
ResizeKeepsResize(s, resize_up, resize_down) ==
    IF resize_up /\ s.defaultUpsize = kGLFilterBicubic
    THEN AddFilter(s, kGLFilterBicubic)
    ELSE IF (resize_up /\ s.defaultUpsize = kGLFilterResize) \/ resize_down
    THEN AddFilter(RemoveAndErase(s, kGLFilterBicubic), kGLFilterResize)
    ELSE OptimiseFilters(RemoveAndErase(s, kGLFilterBicubic))

\* Resize with the first branch removing the bicubic stage in place of the
\* resize stage.
ResizeRemovesBicubicFirst(s, resize_up, resize_down) ==
    IF resize_up /\ s.defaultUpsize = kGLFilterBicubic
    THEN AddFilter(RemoveAndErase(s, kGLFilterBicubic), kGLFilterBicubic)
    ELSE IF (resize_up /\ s.defaultUpsize = kGLFilterResize) \/ resize_down
    THEN AddFilter(RemoveAndErase(s, kGLFilterBicubic), kGLFilterResize)
    ELSE OptimiseFilters(RemoveAndErase(s, kGLFilterBicubic))

\* The three branches of CheckResize.
Resize(s, resize_up, resize_down) ==
    IF resize_up /\ s.defaultUpsize = kGLFilterBicubic
    THEN AddFilter(RemoveAndErase(s, kGLFilterResize), kGLFilterBicubic)
    ELSE IF (resize_up /\ s.defaultUpsize = kGLFilterResize) \/ resize_down
    THEN AddFilter(RemoveAndErase(s, kGLFilterBicubic), kGLFilterResize)
    ELSE OptimiseFilters(RemoveAndErase(s, kGLFilterBicubic))

\* bool resize_up of CheckResize
ResizeUp(s, allow) ==
    /\ \/ s.video_dim.h < s.display_video_rect.h
       \/ s.video_dim.w < s.display_video_rect.w
    /\ allow

\* ResizeDown with the heights compared the wrong way round.
ResizeDownFlipped(s, deinterlacing, allow) ==
    /\ s.video_dim.h < s.display_video_rect.h
    /\ deinterlacing
    /\ allow

\* bool resize_down of CheckResize
ResizeDown(s, deinterlacing, allow) ==
    /\ s.video_dim.h > s.display_video_rect.h
    /\ deinterlacing
    /\ allow

\* OpenGLVideo::CheckResize
CheckResize(s, deinterlacing, allow) ==
    LogCheckResize(s, Resize(s, ResizeUp(s, allow),
                             ResizeDown(s, deinterlacing, allow)),
                   deinterlacing, allow)

(***************************************************************************)
(* Teardown and the hardware deinterlacer.                                 *)
(***************************************************************************)
\* while (!filters.empty()) { RemoveFilter(begin); erase(begin); }
RECURSIVE RemoveAllFilters(_)
RemoveAllFilters(s) ==
    IF FiltersSize(s) = 0 THEN s
    ELSE RemoveAllFilters(RemoveAndErase(s, FilterOrder(s)[1]))

\* DeleteTextures(&inputTextures), DeleteTextures(&referenceTextures)
DeleteInputTextures(s) ==
    [DeleteAll(s, s.inputTextures, 1) EXCEPT !.inputTextures = <<>>]

\* DeleteTextures(&referenceTextures) that leaves the handles in the vector.
DeleteReferenceTexturesKeepsHandles(s) ==
    DeleteAll(s, s.referenceTextures, 1)

DeleteReferenceTextures(s) ==
    [DeleteAll(s, s.referenceTextures, 1) EXCEPT !.referenceTextures = <<>>]

\* if (helperTexture) DeleteTexture(helperTexture); helperTexture = 0;
DeleteHelperTexture(s) ==
    [(IF s.helperTexture # 0 THEN DeleteHandle(s, s.helperTexture) ELSE s)
        EXCEPT !.helperTexture = 0]

\* Teardown that also forgets the negotiated features.
TeardownForgetsFeatures(s) ==
    [RemoveAllFilters(DeleteReferenceTextures(DeleteInputTextures(
         DeleteHelperTexture(s))))
        EXCEPT !.gl_features = kGLFeatNone]

\* OpenGLVideo::Teardown
Teardown(s) ==
    RemoveAllFilters(DeleteReferenceTextures(DeleteInputTextures(
        DeleteHelperTexture(s))))

\* if (fragmentPrograms.size() == n) { delete the last; pop_back(); }
PopProgramIfSize(s, n) ==
    IF Len(s.filters[kGLFilterYUV2RGB].fragmentPrograms) = n
    THEN [DeleteHandle(s, s.filters[kGLFilterYUV2RGB].fragmentPrograms[n]) EXCEPT
             !.filters[kGLFilterYUV2RGB].fragmentPrograms = SubSeq(@, 1, n - 1)]
    ELSE s

\* OpenGLVideo::TearDownDeinterlacer
TearDownDeinterlacer(s) ==
    IF Count(s, kGLFilterYUV2RGB) = 0 THEN s
    ELSE [DeleteReferenceTextures(PopProgramIfSize(PopProgramIfSize(s, 3), 2))
             EXCEPT !.refsNeeded = 0]

\* OpenGLVideo::CreateVideoTexture: the texture in ret, 0 on failure;
\* inputTextureSize is assigned either way.
CreateVideoTexture(s, size) ==
    [CreateTexture(s) EXCEPT !.inputTextureSize = GetTextureSize(s, size)]

\* The deinterlacers that keep no reference frames.
IsBobFamily(deinterlacer) ==
    deinterlacer \in {"openglbobdeint", "openglonefield", "opengldoubleratefieldorder"}

\* for (; ref_size > 0; ref_size--) of AddDeinterlacer: goes on after a
\* failure.  c is the state after CreateVideoTexture.
RECURSIVE AddReferences(_, _, _)
PushReference(c, ref_size, success) ==
    IF c.ret # 0
    THEN AddReferences([c EXCEPT !.referenceTextures = Append(@, c.ret)],
                       ref_size - 1, success)
    ELSE AddReferences(c, ref_size - 1, FALSE)
AddReferences(s, ref_size, success) ==
    IF ref_size <= 0 THEN [s EXCEPT !.ok = success]
    ELSE PushReference(CreateVideoTexture(s, s.actual_video_dim), ref_size, success)

\* The end of AddDeinterlacer without the TearDownDeinterlacer of the
\* failure path.
FinishDeinterlacerNoTearDown(a, deinterlacer, success, prog1) ==
    IF success /\ prog1 # 0 /\ a.ret # 0
    THEN [CheckResize([a EXCEPT !.filters[kGLFilterYUV2RGB].fragmentPrograms =
                                    Append(Append(@, prog1), a.ret)],
                      a.hardwareDeinterlacing, TRUE)
             EXCEPT !.hardwareDeinterlacer = deinterlacer, !.ok = TRUE]
    ELSE [a EXCEPT !.hardwareDeinterlacer = "",
                   !.filters[kGLFilterYUV2RGB].fragmentPrograms =
                       IF prog1 # 0 /\ a.ret # 0
                       THEN Append(Append(@, prog1), a.ret) ELSE @,
                   !.ok = FALSE]

\* The end of AddDeinterlacer: a is the state after the second
\* AddFragmentProgram, a.ret is prog2.
FinishDeinterlacer(a, deinterlacer, success, prog1) ==
    IF success /\ prog1 # 0 /\ a.ret # 0
    THEN [CheckResize([a EXCEPT !.filters[kGLFilterYUV2RGB].fragmentPrograms =
                                    Append(Append(@, prog1), a.ret)],
                      a.hardwareDeinterlacing, TRUE)
             EXCEPT !.hardwareDeinterlacer = deinterlacer, !.ok = TRUE]
    ELSE [TearDownDeinterlacer(
              [a EXCEPT !.hardwareDeinterlacer = "",
                        !.filters[kGLFilterYUV2RGB].fragmentPrograms =
                            IF prog1 # 0 /\ a.ret # 0
                            THEN Append(Append(@, prog1), a.ret) ELSE @])
             EXCEPT !.ok = FALSE]

\* a1 is the state after the first AddFragmentProgram, a1.ret is prog1.
SecondProgram(a1, deinterlacer, success) ==
    FinishDeinterlacer(AddFragmentProgram(a1, kGLFilterYUV2RGB, deinterlacer,
                                          kScan_Intr2ndField),
                       deinterlacer, success, a1.ret)

\* r is the state after the reference textures, r.ok is success so far.
FirstProgram(r, deinterlacer) ==
    SecondProgram(AddFragmentProgram(r, kGLFilterYUV2RGB, deinterlacer,
                                     kScan_Interlaced),
                  deinterlacer, r.ok)

\* t is the state after TearDownDeinterlacer.
WithReferences(t, deinterlacer, ref_size) ==
    FirstProgram(AddReferences([t EXCEPT !.refsNeeded = ref_size, !.refUploads = 0],
                               ref_size, TRUE),
                 deinterlacer)

\* RefSize with four reference textures in place of two.
RefSizeFour(deinterlacer) == IF IsBobFamily(deinterlacer) THEN 0 ELSE 4

\* uint ref_size of AddDeinterlacer
RefSize(deinterlacer) == IF IsBobFamily(deinterlacer) THEN 0 ELSE 2

\* The part of AddDeinterlacer after the early returns.
InstallDeinterlacer(s, deinterlacer) ==
    WithReferences(TearDownDeinterlacer(s), deinterlacer, RefSize(deinterlacer))

\* AddDeinterlacer that does not look for the YUV2RGB stage.
LockedAddDeinterlacerAnyGraph(s, deinterlacer) ==
    IF s.hardwareDeinterlacer = deinterlacer THEN [s EXCEPT !.ok = TRUE]
    ELSE InstallDeinterlacer(s, deinterlacer)

\* AddDeinterlacer from the construction of its OpenGLLocker on.
LockedAddDeinterlacer(s, deinterlacer) ==
    IF Count(s, kGLFilterYUV2RGB) = 0 THEN [s EXCEPT !.ok = FALSE]
    ELSE IF s.hardwareDeinterlacer = deinterlacer THEN [s EXCEPT !.ok = TRUE]
    ELSE InstallDeinterlacer(s, deinterlacer)

\* OpenGLVideo::AddDeinterlacer
AddDeinterlacer(s, deinterlacer) ==
    IF ~HasFeat(s.gl_features, kGLExtFragProg) THEN [s EXCEPT !.ok = FALSE]
    ELSE LockedAddDeinterlacer(Lock(s), deinterlacer)

\* OpenGLVideo::SetDeinterlacing
SetDeinterlacing(s, deinterlacing) ==
    IF deinterlacing = s.hardwareDeinterlacing THEN s
    ELSE CheckResize(Lock([s EXCEPT !.hardwareDeinterlacing = deinterlacing]),
                     deinterlacing, TRUE)

\* OpenGLVideo::SetSoftwareDeinterlacer
SetSoftwareDeinterlacer(s, filter) ==
    IF s.softwareDeinterlacer # filter
    THEN [CheckResize(s, FALSE, filter # "bobdeint") EXCEPT
             !.softwareDeinterlacer = filter]
    ELSE [s EXCEPT !.softwareDeinterlacer = filter]

(***************************************************************************)
(* Frames.  texdata[h] is the number of the frame last uploaded into the   *)
(* texture h, 0 for a texture that was created and never written.  uploads *)
(* counts the frames that passed the checks of UpdateInputFrame, and       *)
(* refUploads those of them that came while hardwareDeinterlacing was set, *)
(* since AddDeinterlacer last built the reference textures.                *)
(***************************************************************************)
FMT_YV12  == "FMT_YV12"
FMT_RGB24 == "FMT_RGB24"

\* RotateTextures that counts down whatever refsNeeded is.
RotateTexturesUnguarded(s) ==
    IF Len(s.referenceTextures) < 2 THEN s
    ELSE [s EXCEPT
             !.refsNeeded = @ - 1,
             !.referenceTextures =
                 <<s.inputTextures[1]>> \o SubSeq(@, 1, Len(@) - 1),
             !.inputTextures[1] = s.referenceTextures[Len(s.referenceTextures)]]

\* RotateTextures that exchanges the input texture with the newest reference
\* texture and leaves the older ones where they are.
RotateTexturesSwapsNewest(s) ==
    IF Len(s.referenceTextures) < 2 THEN s
    ELSE [s EXCEPT
             !.refsNeeded = IF @ > 0 THEN @ - 1 ELSE @,
             !.referenceTextures[1] = s.inputTextures[1],
             !.inputTextures[1] = s.referenceTextures[1]]

\* OpenGLVideo::RotateTextures
RotateTextures(s) ==
    IF Len(s.referenceTextures) < 2 THEN s
    ELSE [s EXCEPT
             !.refsNeeded = IF @ > 0 THEN @ - 1 ELSE @,
             !.referenceTextures =
                 <<s.inputTextures[1]>> \o SubSeq(@, 1, Len(@) - 1),
             !.inputTextures[1] = s.referenceTextures[Len(s.referenceTextures)]]

\* gl_context->UpdateTexture(tex, buf), buf holding the frame numbered id.
UpdateTexture(s, tex, id) ==
    LogEv([GpuCall(s) EXCEPT !.texdata[tex] = id],
          [ev |-> "UpdateTexture", texture |-> tex, frame |-> id])

\* UpdateInputFrame from GetTextureBuffer on; mapped tells whether the
\* context hands out a buffer.
UploadFrame(r, mapped) ==
    IF r.inputTextures = <<>> THEN [r EXCEPT !.ub = @ \cup {"inputTextures[0]"}]
    ELSE IF ~mapped THEN GpuCall(r)
    ELSE [UpdateTexture(GpuCall(r), r.inputTextures[1], r.uploads)
             EXCEPT !.inputUpdated = TRUE]

\* if (hardwareDeinterlacing) RotateTextures();
RotateIfDeinterlacing(s) ==
    IF s.hardwareDeinterlacing
    THEN RotateTextures([s EXCEPT !.refUploads = @ + 1])
    ELSE s

\* The checks UpdateInputFrame makes of the frame.
ValidFrame(s, frame) ==
    ~ (\/ frame.width # s.actual_video_dim.w
       \/ frame.height # s.actual_video_dim.h
       \/ frame.width < 1 \/ frame.height < 1
       \/ frame.codec # FMT_YV12)

\* The frame UpdateInputFrame is called with, kept for the properties.
LogFrame(s, frame) == LogEv(s, [ev |-> "frame", frame |-> frame])

\* UpdateInputFrame that rotates before it has looked at the frame.
UpdateInputFrameRotateFirst(s, frame, mapped) ==
    IF ~ValidFrame(s, frame) THEN RotateTextures(Lock(LogFrame(s, frame)))
    ELSE UploadFrame(RotateIfDeinterlacing(
                         Lock([LogFrame(s, frame) EXCEPT !.uploads = @ + 1])),
                     mapped)

\* OpenGLVideo::UpdateInputFrame
UpdateInputFrame(s, frame, mapped) ==
    IF ~ValidFrame(s, frame) THEN Lock(LogFrame(s, frame))
    ELSE UploadFrame(RotateIfDeinterlacing(
                         Lock([LogFrame(s, frame) EXCEPT !.uploads = @ + 1])),
                     mapped)

\* prog_ref that does not wait for the reference textures to be filled.
ProgRefWithoutWait(s, filter, scan, topfieldfirst) ==
    IF s.hardwareDeinterlacing /\ Len(filter.fragmentPrograms) = 3
    THEN (IF scan = kScan_Interlaced THEN (IF topfieldfirst THEN 1 ELSE 2)
          ELSE IF scan = kScan_Intr2ndField THEN (IF topfieldfirst THEN 2 ELSE 1)
          ELSE 0)
    ELSE 0

\* prog_ref of PrepareFrame for the YUV2RGB stage
ProgRef(s, filter, scan, topfieldfirst) ==
    IF s.hardwareDeinterlacing /\ Len(filter.fragmentPrograms) = 3
           /\ s.refsNeeded = 0
    THEN (IF scan = kScan_Interlaced THEN (IF topfieldfirst THEN 1 ELSE 2)
          ELSE IF scan = kScan_Intr2ndField THEN (IF topfieldfirst THEN 2 ELSE 1)
          ELSE 0)
    ELSE 0

\* The textures PrepareFrame binds for one stage.
StageTextures(s, type, inputs) ==
    inputs
    \o (IF s.referenceTextures # <<>> /\ s.hardwareDeinterlacing
              /\ type = kGLFilterYUV2RGB
        THEN s.referenceTextures ELSE <<>>)
    \o (IF s.helperTexture # 0 /\ type = kGLFilterBicubic
        THEN <<s.helperTexture>> ELSE <<>>)

\* The frame buffer PrepareFrame binds for one stage.
StageTarget(filter) ==
    IF filter.outputBuffer = "kFrameBufferObject" /\ filter.frameBuffers # <<>>
    THEN filter.frameBuffers[1] ELSE 0

\* gl_context->DrawBitmap(textures, texture_count, target, ..., program)
DrawBitmap(s, type, textures, target, program) ==
    LogEv(GpuCall(s), [ev |-> "DrawBitmap", type |-> type, textures |-> textures,
                       target |-> target, program |-> program])

\* One stage of PrepareFrame from "bind correct textures" to DrawBitmap.
DrawStage(s, type, filter, inputs, prog_ref) ==
    IF Len(StageTextures(s, type, inputs)) > 4
    THEN [s EXCEPT !.ub = @ \cup {"textures[4]"}]
    ELSE IF type = kGLFilterResize
    THEN DrawBitmap(s, type, StageTextures(s, type, inputs), StageTarget(filter), 0)
    ELSE IF prog_ref + 1 > Len(filter.fragmentPrograms)
    THEN [s EXCEPT !.ub = @ \cup {"fragmentPrograms[prog_ref]"}]
    ELSE DrawBitmap(s, type, StageTextures(s, type, inputs), StageTarget(filter),
                    filter.fragmentPrograms[prog_ref + 1])

\* float field = kScan_Interlaced ? -1.0f : 1.0f: the condition is the
\* enumerator, which is not 0, and not a comparison with the scan argument.
BobField(scan) == -1

\* The sign of bob in vrect.adjust(0, bob, 0, bob): the quotient of the
\* heights is positive.
BobSign(scan, topfieldfirst) ==
    IF topfieldfirst THEN BobField(scan) ELSE -BobField(scan)

\* "hardware bobdeint" of PrepareFrame: the shift of the vertex rectangle.
AdjustForBob(s, type, filter, scan, topfieldfirst) ==
    IF filter.outputBuffer = "kDefaultBuffer" /\ s.hardwareDeinterlacing
           /\ s.hardwareDeinterlacer = "openglbobdeint"
    THEN LogEv(s, [ev |-> "vrect.adjust", type |-> type,
                   bob |-> BobSign(scan, topfieldfirst)])
    ELSE s

\* for (it = filters.begin(); it != filters.end(); it++) of PrepareFrame
RECURSIVE PrepareStages(_, _, _, _, _, _)
PrepareStages(s, order, i, inputs, scan, topfieldfirst) ==
    IF i > Len(order) \/ s.ub # {} THEN s
    ELSE IF s.filters[order[i]].isNull
    THEN [s EXCEPT !.ub = @ \cup {"filter->outputBuffer"}]
    ELSE IF s.filters[order[i]].outputBuffer
                \notin {"kDefaultBuffer", "kFrameBufferObject"}
    THEN PrepareStages(s, order, i + 1, inputs, scan, topfieldfirst)
    ELSE PrepareStages(
             DrawStage(AdjustForBob(s, order[i], s.filters[order[i]], scan,
                                    topfieldfirst),
                       order[i], s.filters[order[i]], inputs,
                       IF order[i] = kGLFilterYUV2RGB
                       THEN ProgRef(s, s.filters[order[i]], scan, topfieldfirst)
                       ELSE 0),
             order, i + 1, s.filters[order[i]].frameBufferTextures,
             scan, topfieldfirst)

\* currentFrameNum = frame; inputUpdated = false;
FinishFrame(s, frame) ==
    IF s.ub # {} THEN s
    ELSE [s EXCEPT !.currentFrameNum = frame, !.inputUpdated = FALSE]

\* The frame number PrepareFrame is called with, kept for the properties.
LogFrameNum(s, frame) == LogEv(s, [ev |-> "frame number", frame |-> frame])

\* PrepareFrame that leaves inputUpdated as it is.
PrepareFrameKeepsUpdated(s, topfieldfirst, scan, frame) ==
    IF s.inputTextures = <<>> \/ FiltersSize(s) = 0 THEN LogFrameNum(s, frame)
    ELSE [PrepareStages(Lock(LogFrameNum(s, frame)), FilterOrder(s), 1,
                        s.inputTextures, scan, topfieldfirst)
             EXCEPT !.currentFrameNum = frame]

\* OpenGLVideo::PrepareFrame
PrepareFrame(s, topfieldfirst, scan, frame) ==
    IF s.inputTextures = <<>> \/ FiltersSize(s) = 0 THEN LogFrameNum(s, frame)
    ELSE FinishFrame(PrepareStages(Lock(LogFrameNum(s, frame)), FilterOrder(s), 1,
                                   s.inputTextures, scan, topfieldfirst),
                     frame)

(***************************************************************************)
(* Construction and initialisation.                                        *)
(***************************************************************************)
QSize(w, h) == [w |-> w, h |-> h]

\* OpenGLVideo::OpenGLVideo, with an empty ledger and an empty log.
NewInstance ==
    [filters |-> [f \in FilterTypes |-> NoFilter],
     helperTexture |-> 0, inputTextures |-> <<>>, referenceTextures |-> <<>>,
     refsNeeded |-> 0,
     hardwareDeinterlacer |-> "", hardwareDeinterlacing |-> FALSE,
     softwareDeinterlacer |-> "",
     gl_features |-> 0, defaultUpsize |-> kGLFilterResize,
     using_ycbcrtex |-> FALSE, using_hardwaretex |-> FALSE,
     textureRects |-> FALSE, viewportControl |-> FALSE,
     video_dim |-> QSize(0, 0), actual_video_dim |-> QSize(0, 0),
     display_video_rect |-> QSize(0, 0), inputTextureSize |-> QSize(0, 0),
     currentFrameNum |-> 0, inputUpdated |-> FALSE,
     options |-> <<>>,
     frameBufferRect |-> QSize(0, 0),
     names |-> <<>>, texfilt |-> <<>>, texdata |-> <<>>, refusals |-> 0,
     locked |-> FALSE, outsideLock |-> FALSE,
     uploads |-> 0, refUploads |-> 0,
     calls |-> 0, failing |-> {}, refused |-> FALSE, badDelete |-> {},
     ub |-> {}, log |-> <<>>,
     ok |-> TRUE, ret |-> 0, ret2 |-> 0,
     lastAdd |-> NoAdd]

\* NegotiateFeatures without the mask of the context.
NegotiateFeaturesNoMask(options, hw) == ParseOptions(options)

\* gl_features = ParseOptions(options) & gl_context->GetFeatures()
NegotiateFeatures(options, hw) == BitAnd(ParseOptions(options), hw)

\* full_features that looks at the frame buffer objects only.
FullFeaturesOfFBufOnly(gl_features) == HasFeat(gl_features, kGLExtFBufObj)

\* bool full_features of Init
FullFeaturesOf(gl_features) ==
    HasFeat(gl_features, kGLExtFragProg) /\ HasFeat(gl_features, kGLExtFBufObj)

\* The upsize filter and the texture type Init chooses.
InitUpsize(s, options, hw_accel, gl_features, defaultUpsize) ==
    [s EXCEPT
        !.options = options,
        !.gl_features = gl_features,
        !.using_hardwaretex = hw_accel,
        !.using_ycbcrtex = /\ ~hw_accel
                           /\ ~FullFeaturesOf(gl_features)
                           /\ HasFeat(gl_features, kGLMesaYCbCr),
        !.defaultUpsize = defaultUpsize,
        !.textureRects = IF /\ ~hw_accel
                            /\ defaultUpsize # kGLFilterBicubic
                            /\ HasFeat(gl_features, kGLExtRect)
                         THEN TRUE ELSE @]

\* InitFeatures that does not look for "openglbicubic".
InitFeaturesNoBicubic(s, options, hw_accel, gl_features) ==
    InitUpsize(s, options, hw_accel, gl_features, s.defaultUpsize)

\* The features Init negotiates and what follows from them.
InitFeatures(s, options, hw_accel, gl_features) ==
    InitUpsize(s, options, hw_accel, gl_features,
               IF Contains(options, "openglbicubic") /\ FullFeaturesOf(gl_features)
               THEN kGLFilterBicubic ELSE s.defaultUpsize)

\* WorkingDim without the special case of 1088 lines.
WorkingDimUnclamped(videoDim) == videoDim

\* video_dim = videoDim; if (video_dim.height() == 1088) video_dim.setHeight(1080);
WorkingDim(videoDim) ==
    IF videoDim.h = 1088 THEN QSize(videoDim.w, 1080) ELSE videoDim

\* The fields Init assigns before it creates anything.
InitFields(s, videoDim, displayVideoRect, viewport_control, options, hw_accel, hw) ==
    InitFeatures([s EXCEPT
                     !.actual_video_dim = videoDim,
                     !.video_dim = WorkingDim(videoDim),
                     !.display_video_rect = displayVideoRect,
                     !.frameBufferRect = WorkingDim(videoDim),
                     !.softwareDeinterlacer = "",
                     !.hardwareDeinterlacing = FALSE,
                     !.viewportControl = viewport_control,
                     !.inputTextureSize = QSize(0, 0),
                     !.currentFrameNum = -1,
                     !.inputUpdated = FALSE],
                 options, hw_accel, NegotiateFeatures(options, hw))

\* if (ok) inputTextures.push_back(tex); else Teardown();
KeepOrTeardown(a, tex) ==
    IF a.ok THEN [a EXCEPT !.inputTextures = Append(@, tex)]
    ELSE Teardown(a)

\* ok = tex && AddFilter(filter), c being the state after CreateVideoTexture.
AddFirstFilter(c, filter) ==
    IF c.ret # 0 THEN AddFilter(c, filter) ELSE [c EXCEPT !.ok = FALSE]

\* The else of the plain-texture path: the two flags are cleared on failure.
ClearTexFlags(a) ==
    IF a.ok THEN a
    ELSE [a EXCEPT !.using_ycbcrtex = FALSE, !.using_hardwaretex = FALSE]

\* The first stage of Init, c being the state after CreateVideoTexture.
FirstStage(c, filter) ==
    KeepOrTeardown(IF filter = kGLFilterResize
                   THEN ClearTexFlags(AddFirstFilter(c, filter))
                   ELSE AddFirstFilter(c, filter),
                   c.ret)

\* The input texture and the first stage of Init.
InitFirstStage(s) ==
    IF HasFeat(s.gl_features, kGLExtFragProg) /\ ~s.using_ycbcrtex
       /\ ~s.using_hardwaretex
    THEN FirstStage(CreateVideoTexture(s, s.actual_video_dim), kGLFilterYUV2RGB)
    ELSE IF s.using_ycbcrtex \/ s.using_hardwaretex
    THEN FirstStage(CreateVideoTexture(s, s.actual_video_dim), kGLFilterResize)
    ELSE Teardown([s EXCEPT !.ok = FALSE])

\* The end of the fallback, a being the state after AddFilter.
FinishFallback(a, bgra32tex) ==
    IF a.ok
    THEN [LogEv(a, [ev |-> "Fallback", ok |-> TRUE])
             EXCEPT !.inputTextures = Append(@, bgra32tex), !.ok = TRUE]
    ELSE [Teardown(LogEv(a, [ev |-> "Fallback", ok |-> FALSE])) EXCEPT !.ok = FALSE]

\* c is the state after CreateVideoTexture.
Fallback(c) == FinishFallback(AddFirstFilter(c, kGLFilterResize), c.ret)

\* if (filters.empty()) of Init: the software-conversion fallback.
InitFallback(s) ==
    IF FiltersSize(s) # 0 THEN [s EXCEPT !.ok = TRUE]
    ELSE Fallback(CreateVideoTexture(s, s.actual_video_dim))

\* The end of Init: CheckResize(false); return true;
InitFinish(f) ==
    IF ~f.ok THEN f
    ELSE [CheckResize(f, FALSE, TRUE) EXCEPT !.ok = TRUE]

\* OpenGLVideo::Init (gl_context given); ok is the value returned.
Init(s, videoDim, displayVideoRect, viewport_control, options, hw_accel, hw) ==
    InitFinish(InitFallback(InitFirstStage(
        InitFields(Lock(s), videoDim, displayVideoRect, viewport_control,
                   options, hw_accel, hw))))

(***************************************************************************)
(* ChannelImporter: the insertion of the channels of a scan.  A QString is *)
(* a sequence of atoms as above, " " being an atom of its own; a number is *)
(* formatted as the atom of its decimal digits.                            *)
(***************************************************************************)
kOCTCancelAll == -1
kOCTCancel == 0
kOCTOk == 1

kInsertAll == 0
kInsertManual == 1
kInsertIgnoreAll == 2

kATSCNonConflicting == 0
kDVBNonConflicting == 1
kChannelTypeConflictingFirst == 5
kATSCConflicting == 5
kDVBConflicting == 6

\* QString("%1").arg(n), QString::number(n)
Number(n) == <<ToString(n)>>

\* QString("%1_%2").arg(major).arg(minor)
ChannelFormat(major, minor) == <<ToString(major), "_", ToString(minor)>>

\* The channels of the scans: a new ATSC channel without a number, two new
\* DVB channels with the same program number (one of which has a
\* multiplex), and a DVB channel the database knows.
ChanA == [si_standard |-> "atsc", atsc_major_channel |-> 5, atsc_minor_channel |-> 1,
          service_id |-> 1, channel_id |-> 0, chan_num |-> <<>>,
          source_id |-> 1, db_mplexid |-> 0]
ChanB == [si_standard |-> "dvb", atsc_major_channel |-> 0, atsc_minor_channel |-> 0,
          service_id |-> 2, channel_id |-> 0, chan_num |-> <<"2">>,
          source_id |-> 1, db_mplexid |-> 3]
ChanC == [si_standard |-> "dvb", atsc_major_channel |-> 0, atsc_minor_channel |-> 0,
          service_id |-> 2, channel_id |-> 0, chan_num |-> <<"2">>,
          source_id |-> 1, db_mplexid |-> 0]
ChanE == [si_standard |-> "dvb", atsc_major_channel |-> 0, atsc_minor_channel |-> 0,
          service_id |-> 3, channel_id |-> 7, chan_num |-> <<"3">>,
          source_id |-> 1, db_mplexid |-> 3]
ChannelPool == {ChanA, ChanB, ChanC, ChanE}

ScanDTVTransport(frequency, channels) ==
    [frequency |-> frequency, channels |-> channels]

\* The positions (i, j) of the channels of a transport list.
Positions(transports) ==
    UNION {{<<i, j>> : j \in 1..Len(transports[i].channels)} :
           i \in 1..Len(transports)}

\* (chan.atsc_major_channel << 16) | chan.atsc_minor_channel
AtscNum(chan) == chan.atsc_major_channel * 65536 + chan.atsc_minor_channel

\* ChannelImporter::CollectStats, the two counts IsType reads.
CollectStats(transports) ==
    [prognum_cnt |->
        [id \in {c.service_id : c \in ChannelPool} |->
            Cardinality({p \in Positions(transports) :
                /\ transports[p[1]].channels[p[2]].si_standard # "ntsc"
                /\ transports[p[1]].channels[p[2]].service_id = id})],
     atscnum_cnt |->
        [n \in {AtscNum(c) : c \in ChannelPool} |->
            Cardinality({p \in Positions(transports) :
                /\ transports[p[1]].channels[p[2]].si_standard \in {"atsc", "ntsc"}
                /\ AtscNum(transports[p[1]].channels[p[2]]) = n})]]

\* ChannelImporter::IsType, for the ATSC and DVB types.
IsType(info, chan, type) ==
    CASE type = kATSCNonConflicting ->
             chan.si_standard = "atsc" /\ info.atscnum_cnt[AtscNum(chan)] = 1
      [] type = kDVBNonConflicting ->
             chan.si_standard = "dvb" /\ info.prognum_cnt[chan.service_id] = 1
      [] type = kATSCConflicting ->
             chan.si_standard = "atsc" /\ info.atscnum_cnt[AtscNum(chan)] # 1
      [] type = kDVBConflicting ->
             chan.si_standard = "dvb" /\ info.prognum_cnt[chan.service_id] # 1
      [] OTHER -> FALSE

(***************************************************************************)
(* The questions about one channel.  The user answers a prompt by one of   *)
(* OK (with the text of a channel number), Cancel and Cancel All: with a   *)
(* button of the popup, or on the console by typing the text, or the word  *)
(* the prompt names.  `conflicting' is what ChannelUtil::IsConflicting     *)
(* says of the text when it is asked.  A script is the answers to the      *)
(* successive prompts of one question.                                     *)
(***************************************************************************)
Answer(answer, text, conflicting) ==
    [answer |-> answer, text |-> text, conflicting |-> conflicting]
Answers == {Answer("Cancel", <<>>, FALSE), Answer("Cancel All", <<>>, FALSE),
            Answer("OK", <<"7">>, FALSE), Answer("OK", <<"7">>, TRUE),
            Answer("OK", <<"x">>, FALSE)}
Scripts == {<<a>> : a \in Answers}
               \cup {<<a, b>> : a \in {x \in Answers : x.answer = "OK"}, b \in Answers}

cancelStr == <<"cancel">>
cancelAllStr == <<"cancel", " ", "all">>

\* What the user types on the console for an answer.
TypedLine(a) ==
    IF a.answer = "Cancel" THEN cancelStr
    ELSE IF a.answer = "Cancel All" THEN cancelAllStr
    ELSE a.text

\* The words `cin >> sret' will read from a typed line: operator>> skips
\* white space and stops at the next white space.
RECURSIVE Words(_, _)
Words(line, conflicting) ==
    IF line = <<>> THEN <<>>
    ELSE IF Head(line) = " " THEN Words(Tail(line), conflicting)
    ELSE IF FirstIndex(line, " ") = 0
    THEN <<[word |-> line, conflicting |-> conflicting]>>
    ELSE <<[word |-> SubSeq(line, 1, FirstIndex(line, " ") - 1),
            conflicting |-> conflicting]>>
             \o Words(SubSeq(line, FirstIndex(line, " ") + 1, Len(line)), conflicting)

\* (val[0] >= '0') && (val[0] <= '9'), of the first atom of a text
StartsWithDigit(atom) ==
    atom \in {ToString(n) : n \in 0..9}

\* bool ok of the query loops
ValidNumber(val, conflicting) ==
    /\ Len(val) >= 1
    /\ StartsWithDigit(val[1])
    /\ ~conflicting

\* A question in progress: the channel number it may replace, the words
\* waiting in cin, the answers still to come, the log of what happened.
Query(c, script) ==
    [chan_num |-> c.chan.chan_num, cin |-> c.cin, script |-> script,
     ret |-> kOCTCancel, log |-> <<>>, blocked |-> FALSE]

Shown == [ev |-> "prompt", answer |-> ""]
Answered(a) == [ev |-> "answer", answer |-> a.answer]

\* OkCancelType ShowManualChannelPopup: the button decides.
ShowManualChannelPopup(a) ==
    IF a.answer = "OK" THEN kOCTOk
    ELSE IF a.answer = "Cancel" THEN kOCTCancel
    ELSE kOCTCancelAll

\* The loop of the use_gui branch of QueryUserInsert and QueryUserResolve.
RECURSIVE GuiLoop(_)
GuiLoop(q) ==
    IF q.script = <<>> THEN [q EXCEPT !.blocked = TRUE]
    ELSE IF ShowManualChannelPopup(Head(q.script)) # kOCTOk
    THEN [q EXCEPT !.ret = ShowManualChannelPopup(Head(q.script)),
                   !.script = Tail(@),
                   !.log = @ \o <<Shown, Answered(Head(q.script))>>]
    ELSE IF ValidNumber(Head(q.script).text, Head(q.script).conflicting)
    THEN [q EXCEPT !.ret = kOCTOk, !.chan_num = Head(q.script).text,
                   !.script = Tail(@),
                   !.log = @ \o <<Shown, Answered(Head(q.script))>>]
    ELSE GuiLoop([q EXCEPT !.script = Tail(@),
                           !.log = @ \o <<Shown, Answered(Head(q.script))>>])

\* The loop of the is_interactive branch: a prompt, a word read from cin
\* (the user types a line when none is waiting), the comparisons.
RECURSIVE ConsoleRead(_)
ConsoleRead(q) ==
    IF q.cin = <<>>
    THEN (IF q.script = <<>> THEN [q EXCEPT !.blocked = TRUE]
          ELSE ConsoleRead([q EXCEPT
                   !.cin = Words(TypedLine(Head(q.script)), Head(q.script).conflicting),
                   !.script = Tail(@),
                   !.log = Append(@, Answered(Head(q.script)))]))
    ELSE IF ToLower(Head(q.cin).word) = cancelStr
    THEN [q EXCEPT !.ret = kOCTCancel, !.cin = Tail(@)]
    ELSE IF ToLower(Head(q.cin).word) = cancelAllStr
    THEN [q EXCEPT !.ret = kOCTCancelAll, !.cin = Tail(@)]
    ELSE IF ValidNumber(Head(q.cin).word, Head(q.cin).conflicting)
    THEN [q EXCEPT !.ret = kOCTOk, !.chan_num = Head(q.cin).word, !.cin = Tail(@)]
    ELSE ConsoleRead([q EXCEPT !.cin = Tail(@), !.log = Append(@, Shown)])

ConsoleLoop(q) == ConsoleRead([q EXCEPT !.log = Append(@, Shown)])

\* ChannelImporter::QueryUserInsert and ChannelImporter::QueryUserResolve
\* (channel): the two differ in the message only.
QueryUser(c, script) ==
    IF c.use_gui THEN GuiLoop(Query(c, script))
    ELSE IF c.is_interactive THEN ConsoleLoop(Query(c, script))
    ELSE [Query(c, script) EXCEPT !.ret = kOCTCancel]

\* The ways a question about the current channel can end: the user gives
\* the answers of a script and the question returns.
Queries(c) ==
    IF c.use_gui \/ c.is_interactive
    THEN {q \in {QueryUser(c, script) : script \in Scripts} :
             ~q.blocked /\ q.script = <<>>}
    ELSE {QueryUser(c, <<>>)}

(***************************************************************************)
(* InsertChannels(transports, info, action, type, filtered).  A call is a  *)
(* record of its arguments, its locals and what it has done so far; i and  *)
(* j are the loop counters, from 1.  `created' lists the channels          *)
(* ChannelUtil::CreateChannel has stored, `log' the prompts shown, the     *)
(* answers given and the channels stored, with the place of the channel.   *)
(***************************************************************************)
NoTransport == [created |-> FALSE, frequency |-> 0, channels |-> <<>>]

NoCall ==
    [state |-> "idle", transports |-> <<>>, action |-> kInsertAll,
     type |-> kATSCNonConflicting, use_gui |-> FALSE, is_interactive |-> FALSE,
     given |-> <<>>, filtered |-> <<>>, next_list |-> <<>>,
     i |-> 1, j |-> 1, ignore_rest |-> FALSE,
     new_transport |-> NoTransport, filter_transport |-> NoTransport,
     chan |-> ChanA, filter |-> FALSE, handle |-> FALSE,
     conflicting |-> FALSE, inserted |-> FALSE,
     cin |-> <<>>, created |-> <<>>, log |-> <<>>]

\* if (created_filter_transport) filtered.push_back(filter_transport);
\* if (created_new_transport) next_list.push_back(new_transport);
EndTransport(c) ==
    [c EXCEPT
        !.filtered = IF c.filter_transport.created
                     THEN Append(@, ScanDTVTransport(c.filter_transport.frequency,
                                                     c.filter_transport.channels))
                     ELSE @,
        !.next_list = IF c.new_transport.created
                      THEN Append(@, ScanDTVTransport(c.new_transport.frequency,
                                                      c.new_transport.channels))
                      ELSE @,
        !.new_transport = NoTransport, !.filter_transport = NoTransport,
        !.i = @ + 1, !.j = 1]

\* The two loop conditions: goes on to the next channel there is, closing
\* the transports that end on the way.
RECURSIVE NextChannel(_)
NextChannel(c) ==
    IF c.i > Len(c.transports) THEN c
    ELSE IF c.j > Len(c.transports[c.i].channels) THEN NextChannel(EndTransport(c))
    ELSE c

\* The entry of InsertChannels up to the first channel.
BeginInsert(transports, action, type, use_gui, is_interactive, filtered) ==
    NextChannel([NoCall EXCEPT !.state = "running", !.transports = transports,
                               !.action = action, !.type = type,
                               !.use_gui = use_gui, !.is_interactive = is_interactive,
                               !.given = filtered, !.filtered = filtered])

\* ChannelInsertInfo chan = transports[i].channels[j]; bool filter, handle;
Classify(c, info) ==
    [c EXCEPT
        !.chan = c.transports[c.i].channels[c.j],
        !.filter = /\ c.transports[c.i].channels[c.j].channel_id = 0
                   /\ c.action = kInsertIgnoreAll
                   /\ IsType(info, c.transports[c.i].channels[c.j], c.type),
        !.handle = /\ c.transports[c.i].channels[c.j].channel_id = 0
                   /\ c.action # kInsertIgnoreAll
                   /\ IsType(info, c.transports[c.i].channels[c.j], c.type),
        !.conflicting = FALSE, !.inserted = FALSE]

\* if (ignore_rest) handle = false;
SkipRest(c) == IF c.ignore_rest THEN [c EXCEPT !.handle = FALSE] ELSE c

Stamp(c, events) ==
    [k \in 1..Len(events) |->
        [ev |-> events[k].ev, answer |-> events[k].answer, i |-> c.i, j |-> c.j]]

\* OkCancelType rc = QueryUserInsert(info, transports[i], chan) and the
\* branches on rc.
AfterInsertQuery(c, q) ==
    [c EXCEPT !.chan.chan_num = q.chan_num, !.cin = q.cin,
              !.log = @ \o Stamp(c, q.log),
              !.ignore_rest = IF q.ret = kOCTCancelAll THEN TRUE ELSE @,
              !.handle = IF q.ret \in {kOCTCancelAll, kOCTCancel} THEN FALSE ELSE @]

\* if (handle && kInsertManual == action)
ManualInsert(c) ==
    IF c.handle /\ c.action = kInsertManual
    THEN {AfterInsertQuery(c, q) : q \in Queries(c)}
    ELSE {c}

\* The number the channel gets when it has none or its own is taken;
\* conflicting is what IsConflicting says of the new one.
Renumber(c, conflicting) ==
    [c EXCEPT
        !.chan.chan_num =
            IF c.type \in {kATSCNonConflicting, kATSCConflicting}
            THEN ChannelFormat(c.chan.atsc_major_channel, c.chan.atsc_minor_channel)
            ELSE Number(c.chan.service_id),
        !.conflicting = conflicting]

\* if (chan.chan_num.isEmpty() || ChannelUtil::IsConflicting(...))
CheckNumber(c) ==
    IF ~c.handle THEN {c}
    ELSE IF c.chan.chan_num = <<>>
    THEN {Renumber(c, conflicting) : conflicting \in BOOLEAN}
    ELSE {c} \cup {Renumber(c, conflicting) : conflicting \in BOOLEAN}

\* OkCancelType rc = QueryUserResolve(info, transports[i], chan) and the
\* branches on rc.
AfterResolveQuery(c, q) ==
    [c EXCEPT !.chan.chan_num = q.chan_num, !.cin = q.cin,
              !.log = @ \o Stamp(c, q.log),
              !.conflicting = (q.ret # kOCTOk),
              !.ignore_rest = IF q.ret = kOCTCancelAll THEN TRUE ELSE @]

\* if (is_interactive && (conflicting || (kChannelTypeConflictingFirst <= type)))
Resolve(c) ==
    IF c.handle /\ c.is_interactive
           /\ (c.conflicting \/ kChannelTypeConflictingFirst <= c.type)
    THEN {AfterResolveQuery(c, q) : q \in Queries(c)}
    ELSE {c}

\* if (conflicting) handle = false;
SkipConflicting(c) ==
    IF c.handle /\ c.conflicting THEN [c EXCEPT !.handle = FALSE] ELSE c

\* inserted = ChannelUtil::CreateChannel(...), result being what it returns
\* and what it has done.
CreateChannel(c, result) ==
    IF result
    THEN [c EXCEPT !.inserted = TRUE,
                   !.created = Append(@, [i |-> c.i, j |-> c.j, chan |-> c.chan]),
                   !.log = Append(@, [ev |-> "created", answer |-> "",
                                      i |-> c.i, j |-> c.j])]
    ELSE c

\* if (chan.channel_id && chan.db_mplexid) { chan.channel_id = chanid; ... }
WithMultiplex(c, chanid, result) ==
    IF c.chan.channel_id # 0 /\ c.chan.db_mplexid # 0
    THEN CreateChannel([c EXCEPT !.chan.channel_id = chanid], result)
    ELSE c

\* if (chan.channel_id && !chan.db_mplexid)
\*     chan.db_mplexid = ChannelUtil::CreateMultiplex(...);
WithChanID(c, chanid, mplexid, result) ==
    WithMultiplex(IF c.chan.channel_id # 0 /\ c.chan.db_mplexid = 0
                  THEN [c EXCEPT !.chan.db_mplexid = mplexid] ELSE c,
                  chanid, result)

\* int chanid = ChannelUtil::CreateChanID(...);
\* chan.channel_id = (chanid > 0) ? chanid : chan.channel_id;
Insert(c, chanid, mplexid, result) ==
    WithChanID([c EXCEPT !.chan.channel_id = IF chanid > 0 THEN chanid ELSE @],
               chanid, mplexid, result)

\* if (handle) { ... }: what the database calls return is the environment's.
InsertIfHandled(c) ==
    IF c.handle
    THEN {Insert(c, chanid, mplexid, result) :
             chanid \in {-1, 1009}, mplexid \in {0, 12}, result \in BOOLEAN}
    ELSE {c}

\* Keep that also returns the channels that were stored.
KeepInserted(c) ==
    IF c.filter
    THEN [c EXCEPT !.filter_transport =
                       [created |-> TRUE, frequency |-> c.transports[c.i].frequency,
                        channels |-> Append(@.channels, c.transports[c.i].channels[c.j])]]
    ELSE [c EXCEPT !.new_transport =
                       [created |-> TRUE, frequency |-> c.transports[c.i].frequency,
                        channels |-> Append(@.channels, c.transports[c.i].channels[c.j])]]

\* filter_transport.channels.push_back(transports[i].channels[j]), or
\* new_transport.channels.push_back(transports[i].channels[j])
Keep(c) ==
    IF c.filter
    THEN [c EXCEPT !.filter_transport =
                       [created |-> TRUE, frequency |-> c.transports[c.i].frequency,
                        channels |-> Append(@.channels, c.transports[c.i].channels[c.j])]]
    ELSE IF ~c.inserted
    THEN [c EXCEPT !.new_transport =
                       [created |-> TRUE, frequency |-> c.transports[c.i].frequency,
                        channels |-> Append(@.channels, c.transports[c.i].channels[c.j])]]
    ELSE c

\* The end of the body of the inner loop, and the loop conditions.
EndChannel(c) == NextChannel([Keep(c) EXCEPT !.j = @ + 1])

\* One pass of the inner loop of InsertChannels: every way it can go.
Mapped(S, Op(_)) == UNION {Op(c) : c \in S}
HandleChannel(c, info) ==
    {EndChannel(d) :
        d \in Mapped({SkipConflicting(r) :
                         r \in Mapped(Mapped(ManualInsert(SkipRest(Classify(c, info))),
                                             CheckNumber),
                                      Resolve)},
                     InsertIfHandled)}

(***************************************************************************)
(* ChannelImporter::ComputeSuggestedChannelNum, called from several        *)
(* threads.  last_free_lock and last_free_chan_num_map are its statics;    *)
(* db is the (source, channel number) pairs the channel table holds, which *)
(* is what ChannelUtil::IsConflicting looks up; a thread record holds the  *)
(* locals of the call the thread is in and the result of its last call.    *)
(***************************************************************************)
MaxChanNum == 3

Threads == {1, 2}
SourceIds == {1, 2}

\* The channels a number is asked for: an ATSC channel of source 1, a DVB
\* channel of source 1, a DVB channel of source 2.
ChanF == [ChanB EXCEPT !.source_id = 2]
SuggestChannels == {ChanA, ChanB, ChanF}

\* The pairs other writers of the channel table may add meanwhile.
TableEntries ==
    {<<c.source_id, ChannelFormat(c.atsc_major_channel, c.atsc_minor_channel)>> :
        c \in {d \in SuggestChannels : d.atsc_minor_channel # 0}}
        \cup {<<c.source_id, Number(c.service_id)>> : c \in SuggestChannels}
        \cup {<<id, Number(1)>> : id \in SourceIds}

NoResult == [chan_num |-> <<>>, source_id |-> 0, counter |-> FALSE,
             checked |-> <<>>, free |-> FALSE]

NoThread == [pc |-> "idle", chan |-> ChanA, chan_num |-> <<>>,
             last_free_chan_num |-> 0, free |-> FALSE, ret |-> NoResult]

NoSuggest ==
    [last_free_lock |-> 0,
     last_free_chan_num_map |-> [id \in SourceIds |-> 0],
     db |-> {},
     thread |-> [t \in Threads |-> NoThread],
     returned |-> [id \in SourceIds |-> <<>>]]

\* ChannelUtil::IsConflicting(chan_num, source_id)
IsConflicting(s, chan_num, source_id) == <<source_id, chan_num>> \in s.db

\* QString chan_num of ComputeSuggestedChannelNum before the first check
FirstChoice(chan) ==
    IF chan.atsc_minor_channel = 0 THEN Number(chan.service_id)
    ELSE ChannelFormat(chan.atsc_major_channel, chan.atsc_minor_channel)

\* return chan_num: the thread is out of the call.
ReturnNumber(s, t, counter) ==
    [s EXCEPT !.thread[t].pc = "idle",
              !.thread[t].ret =
                  [chan_num |-> s.thread[t].chan_num,
                   source_id |-> s.thread[t].chan.source_id,
                   counter |-> counter,
                   checked |-> s.thread[t].chan_num,
                   free |-> s.thread[t].free]]

\* The call up to the QMutexLocker: the first choice is returned when the
\* table does not hold it.
EnterSuggest(s, t, chan) ==
    IF ~IsConflicting(s, FirstChoice(chan), chan.source_id)
    THEN ReturnNumber([s EXCEPT !.thread[t].chan = chan,
                                !.thread[t].chan_num = FirstChoice(chan),
                                !.thread[t].free = TRUE],
                      t, FALSE)
    ELSE [s EXCEPT !.thread[t].pc = "waiting", !.thread[t].chan = chan,
                   !.thread[t].chan_num = FirstChoice(chan),
                   !.thread[t].free = FALSE]

\* last_free_chan_num++ of an unsigned int: it wraps beyond 4294967295,
\* which the model, whose numbers stay at or below MaxChanNum, never reaches.
NextNumber(n) == n + 1

\* QMutexLocker locker(&last_free_lock) without the wait for the mutex.
LockAndReadNoWait(s, t) == TRUE

\* Whether QMutexLocker locker(&last_free_lock) can go on.
LockAndRead(s, t) == s.last_free_lock = 0

\* uint last_free_chan_num = last_free_chan_num_map[chan.source_id];
ReadCounter(s, t) ==
    [s EXCEPT !.last_free_lock = t,
              !.thread[t].pc = "locked",
              !.thread[t].last_free_chan_num =
                  s.last_free_chan_num_map[s.thread[t].chan.source_id]]

\* One pass of for (last_free_chan_num++; ; last_free_chan_num++): the
\* increment, the number as text, the check.
ProbeNext(s, t) ==
    [s EXCEPT !.thread[t].last_free_chan_num = NextNumber(@),
              !.thread[t].chan_num =
                  Number(NextNumber(s.thread[t].last_free_chan_num)),
              !.thread[t].free =
                  ~IsConflicting(s, Number(NextNumber(s.thread[t].last_free_chan_num)),
                                 s.thread[t].chan.source_id),
              !.thread[t].pc =
                  IF IsConflicting(s, Number(NextNumber(s.thread[t].last_free_chan_num)),
                                   s.thread[t].chan.source_id)
                  THEN "locked" ELSE "found"]

\* last_free_chan_num_map[chan.source_id] = last_free_chan_num; return
\* chan_num; and the mutex is released.
StoreCounter(s, t) ==
    ReturnNumber([s EXCEPT
                     !.last_free_chan_num_map[s.thread[t].chan.source_id] =
                         s.thread[t].last_free_chan_num,
                     !.returned[s.thread[t].chan.source_id] =
                         Append(@, s.thread[t].last_free_chan_num),
                     !.last_free_lock = IF @ = t THEN 0 ELSE @],
                 t, TRUE)

(***************************************************************************)
(* The state machine: one OpenGLVideo instance on one GL context, driven   *)
(* by its owner (VideoOutput), one call at a time.                         *)
(***************************************************************************)
VARIABLES
    pc,          \* "new", "ready", "failed" (Init returned false), "deleted", "crashed"
    video,       \* the instance, the ledger of its context and the log of its last call
    hwFeatures,  \* gl_context->GetFeatures(), of the context given to Init
    importer,    \* the InsertChannels call of a ChannelImporter
    suggest      \* the statics of ComputeSuggestedChannelNum and its callers

vars == <<pc, video, hwFeatures, importer, suggest>>

\* The inputs of the calls.
FullFeatures == kGLMaxFeat - 1
NoFBufObj == FullFeatures - kGLExtFBufObj - kGLMesaYCbCr
NoFragProg == FullFeatures - kGLExtFragProg
\* (the features of the context, the options given to Init)
Platforms == {<<FullFeatures, <<>> >>,
              <<FullFeatures, <<"openglbicubic">> >>,
              <<NoFBufObj, <<"openglbicubic", ",", "opengloptions", "=", "nopbo">> >>,
              <<NoFragProg, <<>> >>,
              <<NoFragProg, <<"openglbicubic", ",", "opengloptions", "=", "noycbcr">> >>}
\* (videoDim, displayVideoRect): upscale; wider and lower; downscale;
\* narrower and as high; 1088 lines.
Geometries == {<<QSize(720, 480), QSize(1920, 1080)>>,
               <<QSize(720, 480), QSize(1024, 400)>>,
               <<QSize(720, 480), QSize(640, 360)>>,
               <<QSize(720, 480), QSize(640, 480)>>,
               <<QSize(1920, 1088), QSize(1920, 1080)>>}
Deinterlacers == {"openglbobdeint", "opengllinearblend"}
SoftwareDeinterlacers == {"bobdeint", "linearblend"}

\* The sets of creation calls that the context refuses during one operation.
FailSets == {F \in SUBSET CallNumbers : Cardinality(F) <= MaxFail - video.refusals}

\* The log and the call counter start afresh with every operation.
Begin(s, F, op) ==
    [s EXCEPT !.calls = 0, !.failing = F, !.refused = FALSE, !.ub = {},
              !.badDelete = {},
              !.locked = FALSE, !.outsideLock = FALSE,
              !.log = <<[ev |-> op, pre |-> Snap(s), frames |-> FrameSnap(s)]>>,
              !.ok = TRUE, !.ret = 0, !.ret2 = 0]

\* What is left of the locals when the operation returns.
End(s) == [s EXCEPT !.calls = 0, !.failing = {}, !.ret = 0, !.ret2 = 0,
                    !.locked = FALSE]

\* After undefined behaviour the process either goes on or dies.
Outcomes(s, next) == IF s.ub # {} THEN {next, "crashed"} ELSE {next}

\* The operation returns to a ready instance, r being its final state.
Return(r) ==
    /\ video' = End(r)
    /\ pc' \in Outcomes(r, "ready")

\* Init returns: a false result leaves an instance that is only deleted.
InitReturn(r) ==
    /\ video' = End(r)
    /\ pc' \in Outcomes(r, IF r.ok THEN "ready" ELSE "failed")

InitCall ==
    /\ pc = "new"
    /\ \E geometry \in Geometries, platform \in Platforms,
          hw_accel \in BOOLEAN, F \in FailSets :
          /\ InitReturn(Init(Begin(video, F, "Init"), geometry[1], geometry[2], TRUE,
                             platform[2], hw_accel, platform[1]))
          /\ hwFeatures' = platform[1]
          /\ UNCHANGED <<importer, suggest>>

AddDeinterlacerCall ==
    /\ pc = "ready"
    /\ \E deinterlacer \in Deinterlacers, F \in FailSets :
          Return(AddDeinterlacer(Begin(video, F, "AddDeinterlacer"), deinterlacer))
    /\ UNCHANGED <<hwFeatures, importer, suggest>>

SetDeinterlacingCall ==
    /\ pc = "ready"
    /\ \E deinterlacing \in BOOLEAN, F \in FailSets :
          Return(SetDeinterlacing(Begin(video, F, "SetDeinterlacing"), deinterlacing))
    /\ UNCHANGED <<hwFeatures, importer, suggest>>

SetSoftwareDeinterlacerCall ==
    /\ pc = "ready"
    /\ \E filter \in SoftwareDeinterlacers, F \in FailSets :
          Return(SetSoftwareDeinterlacer(
                     Begin(video, F, "SetSoftwareDeinterlacer"), filter))
    /\ UNCHANGED <<hwFeatures, importer, suggest>>

\* OpenGLVideo::~OpenGLVideo
Destructor ==
    /\ pc \in {"ready", "failed"}
    /\ video' = End(Teardown(Lock(Begin(video, {}, "~OpenGLVideo"))))
    /\ pc' = "deleted"
    /\ UNCHANGED <<hwFeatures, importer, suggest>>

StartState ==
    /\ pc = "new"
    /\ video = NewInstance
    /\ hwFeatures = kGLFeatNone
    /\ importer = NoCall
    /\ suggest = NoSuggest

Next ==
    \/ InitCall
    \/ AddDeinterlacerCall
    \/ SetDeinterlacingCall
    \/ SetSoftwareDeinterlacerCall
    \/ Destructor

Spec == StartState /\ [][Next]_vars

(***************************************************************************)
(* The feature negotiation of Init on every option string of at most       *)
(* MaxOptLen atoms: one Init per behaviour, no call refused.               *)
(***************************************************************************)
RECURSIVE StringsOfLen(_)
StringsOfLen(n) ==
    IF n = 0 THEN {<<>>}
    ELSE {Append(str, a) : str \in StringsOfLen(n - 1), a \in OptAtoms}

OptionStrings == UNION {StringsOfLen(n) : n \in 0..MaxOptLen}

OptMasks == {FullFeatures, FullFeatures - kGLExtPBufObj,
             kGLExtFragProg + kGLExtFBufObj, kGLFeatNone}

InitCallOpts ==
    /\ pc = "new"
    /\ \E options \in OptionStrings, hw \in OptMasks :
          /\ InitReturn(Init(Begin(video, {}, "Init"), QSize(720, 480),
                             QSize(1920, 1080), TRUE, options, FALSE, hw))
          /\ hwFeatures' = hw
          /\ UNCHANGED <<importer, suggest>>

NextOpts == InitCallOpts

SpecOpts == StartState /\ [][NextOpts]_vars

(***************************************************************************)
(* The life of an instance that is fed frames: at most one creation call   *)
(* is refused, during Init, and at most MaxUploads frames pass the checks  *)
(* of UpdateInputFrame.                                                    *)
(***************************************************************************)
\* The frames handed to UpdateInputFrame: one of the configured geometry,
\* and one each with another width, height and pixel format.
Frames(s) ==
    {[width |-> s.actual_video_dim.w, height |-> s.actual_video_dim.h,
      codec |-> FMT_YV12],
     [width |-> s.actual_video_dim.w + 16, height |-> s.actual_video_dim.h,
      codec |-> FMT_YV12],
     [width |-> s.actual_video_dim.w, height |-> 0, codec |-> FMT_YV12],
     [width |-> s.actual_video_dim.w, height |-> s.actual_video_dim.h,
      codec |-> FMT_RGB24]}

FrameNumbers == {1, 2}
\* The geometries that fill a 1920x1080 display, on the contexts with and
\* without fragment programs.
FrameGeometries == {g \in Geometries : g[2] = QSize(1920, 1080)}
FramePlatforms == {p \in Platforms : p[1] # NoFBufObj}
ScanTypes == {kScan_Interlaced, kScan_Progressive}

\* Init may meet one refused creation call when it upscales 720x480.
InitFailSets(geometry) ==
    IF geometry[1] = QSize(720, 480)
    THEN {{}} \cup {{n} : n \in CallNumbers}
    ELSE {{}}

InitCallFrames ==
    /\ pc = "new"
    /\ \E geometry \in FrameGeometries, platform \in FramePlatforms, hw_accel \in BOOLEAN :
          \E F \in InitFailSets(geometry) :
              /\ InitReturn(Init(Begin(video, F, "Init"), geometry[1], geometry[2],
                                 TRUE, platform[2], hw_accel, platform[1]))
              /\ hwFeatures' = platform[1]
              /\ UNCHANGED <<importer, suggest>>

AddDeinterlacerCallFrames ==
    /\ pc = "ready"
    /\ \E deinterlacer \in Deinterlacers :
          Return(AddDeinterlacer(Begin(video, {}, "AddDeinterlacer"), deinterlacer))
    /\ UNCHANGED <<hwFeatures, importer, suggest>>

SetDeinterlacingCallFrames ==
    /\ pc = "ready"
    /\ \E deinterlacing \in BOOLEAN :
          Return(SetDeinterlacing(Begin(video, {}, "SetDeinterlacing"), deinterlacing))
    /\ UNCHANGED <<hwFeatures, importer, suggest>>

UpdateInputFrameCall ==
    /\ pc = "ready"
    /\ video.uploads < MaxUploads
    /\ \E frame \in Frames(video) :
          \E mapped \in (IF ValidFrame(video, frame) THEN BOOLEAN ELSE {TRUE}) :
              Return(UpdateInputFrame(Begin(video, {}, "UpdateInputFrame"),
                                      frame, mapped))
    /\ UNCHANGED <<hwFeatures, importer, suggest>>

PrepareFrameCall ==
    /\ pc \in {"new", "ready"}
    /\ \E scan \in ScanTypes, frame \in FrameNumbers :
          /\ video' = End(PrepareFrame(Begin(video, {}, "PrepareFrame"),
                                       TRUE, scan, frame))
          /\ pc' \in Outcomes(video', pc)
    /\ UNCHANGED <<hwFeatures, importer, suggest>>

(***************************************************************************)
(* The drawing of frames on every graph Init builds when no creation call  *)
(* is refused, with every scan type and field order.                       *)
(***************************************************************************)
AllScanTypes == {kScan_Interlaced, kScan_Intr2ndField, kScan_Progressive}

InitCallDraw ==
    /\ pc = "new"
    /\ \E geometry \in Geometries, platform \in Platforms :
          /\ InitReturn(Init(Begin(video, {}, "Init"), geometry[1], geometry[2],
                             TRUE, platform[2], FALSE, platform[1]))
          /\ hwFeatures' = platform[1]
          /\ UNCHANGED <<importer, suggest>>

UploadCall ==
    /\ pc = "ready"
    /\ video.uploads < MaxUploads
    /\ Return(UpdateInputFrame(Begin(video, {}, "UpdateInputFrame"),
                               [width |-> video.actual_video_dim.w,
                                height |-> video.actual_video_dim.h,
                                codec |-> FMT_YV12],
                               TRUE))
    /\ UNCHANGED <<hwFeatures, importer, suggest>>

\* The scan type and the field order of a call, kept for the properties.
LogArguments(s, topfieldfirst, scan) ==
    LogEv(s, [ev |-> "arguments", scan |-> scan, topfieldfirst |-> topfieldfirst])

DrawCall ==
    /\ pc = "ready"
    /\ \E scan \in AllScanTypes, topfieldfirst \in BOOLEAN :
          /\ video' = End(PrepareFrame(
                              LogArguments(Begin(video, {}, "PrepareFrame"),
                                           topfieldfirst, scan),
                              topfieldfirst, scan, 1))
          /\ pc' \in Outcomes(video', pc)
    /\ UNCHANGED <<hwFeatures, importer, suggest>>

NextDraw ==
    \/ InitCallDraw
    \/ AddDeinterlacerCallFrames
    \/ SetDeinterlacingCallFrames
    \/ UploadCall
    \/ DrawCall

SpecDraw == StartState /\ [][NextDraw]_vars

NextFrames ==
    \/ InitCallFrames
    \/ AddDeinterlacerCallFrames
    \/ SetDeinterlacingCallFrames
    \/ UpdateInputFrameCall
    \/ PrepareFrameCall

SpecFrames == StartState /\ [][NextFrames]_vars

(***************************************************************************)
(* One InsertChannels call on the channels of a scan, the user answering   *)
(* the questions and the database calls succeeding or failing.             *)
(***************************************************************************)
ChannelSeqs ==
    {<<>>} \cup {<<a>> : a \in ChannelPool}
           \cup {s \in {<<a, b>> : a \in ChannelPool, b \in ChannelPool} :
                     s[1] # s[2]}

\* Transport lists of one or two transports in which no channel occurs twice.
ScanLists ==
    {<<ScanDTVTransport(474, s)>> : s \in ChannelSeqs \ {<<>>}}
        \cup {l \in {<<ScanDTVTransport(474, s), ScanDTVTransport(482, t)>> :
                         s \in ChannelSeqs, t \in ChannelSeqs \ {<<>>}} :
                 \A k \in 1..Len(l[1].channels) : \A m \in 1..Len(l[2].channels) :
                     l[1].channels[k] # l[2].channels[m]}

InsertActions == {kInsertAll, kInsertManual, kInsertIgnoreAll}
ChannelTypes == {kATSCNonConflicting, kDVBNonConflicting,
                 kATSCConflicting, kDVBConflicting}
\* What `filtered' holds when the call is made.
GivenFiltered == {<<>>, <<ScanDTVTransport(490, <<ChanE>>)>>}

InsertChannelsCall ==
    /\ importer.state = "idle"
    /\ \E transports \in ScanLists, action \in InsertActions, type \in ChannelTypes,
          use_gui \in BOOLEAN, is_interactive \in BOOLEAN, filtered \in GivenFiltered :
          importer' = BeginInsert(transports, action, type, use_gui, is_interactive,
                                  filtered)
    /\ UNCHANGED <<pc, video, hwFeatures, suggest>>

HandleChannelStep ==
    /\ importer.state = "running"
    /\ importer.i <= Len(importer.transports)
    /\ importer' \in HandleChannel(importer, CollectStats(importer.transports))
    /\ UNCHANGED <<pc, video, hwFeatures, suggest>>

InsertChannelsReturn ==
    /\ importer.state = "running"
    /\ importer.i > Len(importer.transports)
    /\ importer' = [importer EXCEPT !.state = "returned"]
    /\ UNCHANGED <<pc, video, hwFeatures, suggest>>

NextImport ==
    \/ InsertChannelsCall
    \/ HandleChannelStep
    \/ InsertChannelsReturn

SpecImport == StartState /\ [][NextImport]_vars

(***************************************************************************)
(* Two threads asking for channel numbers while the channel table grows.   *)
(***************************************************************************)
SuggestCall(t) ==
    /\ suggest.thread[t].pc = "idle"
    /\ \E chan \in SuggestChannels : suggest' = EnterSuggest(suggest, t, chan)
    /\ UNCHANGED <<pc, video, hwFeatures, importer>>

SuggestLock(t) ==
    /\ suggest.thread[t].pc = "waiting"
    /\ LockAndRead(suggest, t)
    /\ suggest' = ReadCounter(suggest, t)
    /\ UNCHANGED <<pc, video, hwFeatures, importer>>

SuggestProbe(t) ==
    /\ suggest.thread[t].pc = "locked"
    /\ suggest.thread[t].last_free_chan_num < MaxChanNum
    /\ suggest' = ProbeNext(suggest, t)
    /\ UNCHANGED <<pc, video, hwFeatures, importer>>

SuggestStore(t) ==
    /\ suggest.thread[t].pc = "found"
    /\ suggest' = StoreCounter(suggest, t)
    /\ UNCHANGED <<pc, video, hwFeatures, importer>>

\* Another writer adds a channel to the table.
TableInsert ==
    /\ \E e \in TableEntries \ suggest.db :
          suggest' = [suggest EXCEPT !.db = @ \cup {e}]
    /\ UNCHANGED <<pc, video, hwFeatures, importer>>

NextSuggest ==
    \/ \E t \in Threads : SuggestCall(t)
    \/ \E t \in Threads : SuggestLock(t)
    \/ \E t \in Threads : SuggestProbe(t)
    \/ \E t \in Threads : SuggestStore(t)
    \/ TableInsert

SpecSuggest == StartState /\ [][NextSuggest]_vars

(***************************************************************************)
(* Properties of the stage graph.  They speak of the instance when a call  *)
(* has returned, and of the events the call has logged; nothing is said of *)
(* a process that has died.                                                *)
(***************************************************************************)
Returned == pc # "crashed"

\* The events of the last call with the given name, by their place in the log.
EventsOf(name) == {i \in 1..Len(video.log) : video.log[i].ev = name}

\* What the graph of a snapshot shows of its stages: the stage set, and of
\* every stage the output target and the number of frame buffers.
GraphOf(snap) ==
    [f \in FilterTypes |->
        [present |-> snap.filters[f].present,
         outputBuffer |-> snap.filters[f].outputBuffer,
         buffers |-> Len(snap.filters[f].frameBuffers)]]

\* C1: every stage but the last holds as many frame buffers, and as many
\* frame buffer textures, as the stage after it in pipeline order has inputs.
BuffersReconciled ==
    Returned =>
        \A i \in 1..(Len(FilterOrder(video)) - 1) :
            /\ Len(video.filters[FilterOrder(video)[i]].frameBuffers)
                   = video.filters[FilterOrder(video)[i + 1]].numInputs
            /\ Len(video.filters[FilterOrder(video)[i]].frameBufferTextures)
                   = video.filters[FilterOrder(video)[i + 1]].numInputs

\* A graph of two stages, the second of them added by the last call after a
\* stage had been removed or while a deinterlacer is installed.
BuffersReconciledWitness ==
    /\ pc = "ready"
    /\ FiltersSize(video) = 2
    /\ video.hardwareDeinterlacing
    /\ \E i \in EventsOf("AddFilter") :
          video.log[i].ok /\ ~video.log[i].wasPresent

\* C2: in a graph that is not empty the last stage in pipeline order, and
\* no other, writes to the default buffer; all the others write to a frame
\* buffer object.  (The claim as stated; the code violates it.)
OneDefaultOutput ==
    (pc = "ready" /\ FiltersSize(video) > 0) =>
        \A i \in 1..Len(FilterOrder(video)) :
            video.filters[FilterOrder(video)[i]].outputBuffer
                = IF i = Len(FilterOrder(video)) THEN kDefaultBuffer
                  ELSE kFrameBufferObject

\* C3: an AddFilter that returns false leaves the graph as it found it (the
\* same stages, each with the same output target and as many frame buffers)
\* and leaves no GL object that it created.  (The claim as stated; the code
\* violates it.)
FailedAddRollsBack ==
    Returned =>
        \A i \in EventsOf("AddFilter") :
            ~video.log[i].ok =>
                /\ GraphOf(video.log[i].post) = GraphOf(video.log[i].pre)
                /\ video.log[i].post.names = video.log[i].pre.names

\* C4: when a stage that was added is removed again with no other stage added
\* in between or afterwards, every stage that remains has as many frame
\* buffers as before the stage was added, and no Delete call was made on a
\* name that denotes nothing.  (The claim as stated; the code violates it.)
AddThenRemoveRestores ==
    Returned =>
        \A i \in EventsOf("RemovedAfterAdd") :
            (\A j \in EventsOf("AddFilter") : j < i \/ video.log[j].wasPresent) =>
                /\ \A f \in video.log[i].remaining :
                      Len(video.filters[f].frameBuffers) = video.log[i].before[f]
                /\ video.badDelete = {}

\* C5: AddFilter on a type that is present returns true, makes no creation
\* call, and leaves the stages (programs, frame buffers, textures, output
\* targets), the GL names and the helper texture as they were.
AddPresentIsNoOp ==
    Returned =>
        \A i \in EventsOf("AddFilter") :
            video.log[i].wasPresent =>
                /\ video.log[i].ok
                /\ video.log[i].post = video.log[i].pre
                /\ video.log[i].callsAfter = video.log[i].callsBefore

\* AddFilter(kGLFilterBicubic) has been called on a graph that holds a
\* bicubic stage with its program and its upstream frame buffer.
AddPresentIsNoOpWitness ==
    /\ pc = "ready"
    /\ \E i \in EventsOf("AddFilter") :
          /\ video.log[i].wasPresent
          /\ video.log[i].filter = kGLFilterBicubic
          /\ Len(video.log[i].pre.filters[kGLFilterBicubic].fragmentPrograms) = 1
          /\ Len(video.log[i].pre.filters[kGLFilterYUV2RGB].frameBuffers) = 1

\* C6, as stated: RemoveFilter on a stage that is present deletes each GL
\* object of the stage once, and when it returns the type is no longer in
\* the graph.
RemoveFilterLeavesTypeAbsent ==
    Returned =>
        \A i \in EventsOf("RemoveFilter") :
            /\ video.log[i].wereLive = video.log[i].handles
            /\ Cardinality(video.log[i].handles) = video.log[i].held
            /\ video.log[i].stillLive = {}
            /\ video.log[i].badAfter = video.log[i].badBefore
            /\ video.log[i].countAfter = 0

\* C6, amended: RemoveFilter on a stage that is present deletes each GL
\* object of the stage once (every name the stage held denoted an object, no
\* name was held twice, none denotes an object afterwards, no Delete call went
\* to a name that denotes nothing); the type is still a key of the graph when
\* RemoveFilter returns, bound to NULL, and is absent from the graph once the
\* caller has erased it, which every caller has done when its call returns.
RemoveFilterDeletesOnce ==
    Returned =>
        /\ \A i \in EventsOf("RemoveFilter") :
              /\ video.log[i].wereLive = video.log[i].handles
              /\ Cardinality(video.log[i].handles) = video.log[i].held
              /\ video.log[i].stillLive = {}
              /\ video.log[i].badAfter = video.log[i].badBefore
              /\ video.log[i].countAfter = 1
              /\ \/ Count(video, video.log[i].filter) = 0
                 \/ \E j \in EventsOf("AddFilter") :
                       /\ j > i
                       /\ video.log[j].filter = video.log[i].filter
                       /\ video.log[j].ok
        /\ \A f \in FilterTypes : ~video.filters[f].isNull

\* The destructor has removed a stage that held a program, a frame buffer
\* and its texture.
RemoveFilterDeletesOnceWitness ==
    /\ pc = "deleted"
    /\ \E i \in EventsOf("RemoveFilter") :
          /\ video.log[i].held >= 3
          /\ Count(video, video.log[i].filter) = 0

\* Whether the display is higher or wider than the video (CheckResize reads
\* the two sizes, which Init sets).
DisplayExceeds ==
    \/ video.video_dim.h < video.display_video_rect.h
    \/ video.video_dim.w < video.display_video_rect.w

\* Whether the display is lower than the video.
DisplayLower == video.video_dim.h > video.display_video_rect.h

\* Whether the display is lower or narrower than the video.
DisplaySmaller ==
    \/ video.video_dim.h > video.display_video_rect.h
    \/ video.video_dim.w > video.display_video_rect.w

\* No creation call was refused during the CheckResize of event i.
NothingRefused(i) == video.log[i].post.refusals = video.log[i].pre.refusals

HasStage(snap, f) == snap.filters[f].present

\* C7, as stated: when the display exceeds the video and bicubic is the
\* upsize filter, a CheckResize during which no creation call is refused
\* leaves a bicubic stage and no resize stage.
BicubicRule ==
    Returned =>
        \A i \in EventsOf("CheckResize") :
            (/\ DisplayExceeds
             /\ video.defaultUpsize = kGLFilterBicubic
             /\ NothingRefused(i)) =>
                /\ HasStage(video.log[i].post, kGLFilterBicubic)
                /\ ~HasStage(video.log[i].post, kGLFilterResize)

\* C7, amended: when the display exceeds the video, bicubic is the upsize
\* filter and CheckResize is called with allow = true, a CheckResize during
\* which no creation call is refused leaves a bicubic stage and no resize
\* stage, whether or not deinterlacing is on or the display is lower than
\* the video.
BicubicRuleWhenAllowed ==
    Returned =>
        \A i \in EventsOf("CheckResize") :
            (/\ DisplayExceeds
             /\ video.log[i].allow
             /\ video.defaultUpsize = kGLFilterBicubic
             /\ NothingRefused(i)) =>
                /\ HasStage(video.log[i].post, kGLFilterBicubic)
                /\ ~HasStage(video.log[i].post, kGLFilterResize)

\* CheckResize with deinterlacing on, a display wider and lower than the
\* video, and bicubic the upsize filter has left a bicubic stage.
BicubicRuleWitness ==
    /\ pc = "ready"
    /\ DisplayExceeds /\ DisplayLower
    /\ video.defaultUpsize = kGLFilterBicubic
    /\ \E i \in EventsOf("CheckResize") :
          /\ video.log[i].allow /\ video.log[i].deinterlacing
          /\ NothingRefused(i)
          /\ HasStage(video.log[i].post, kGLFilterBicubic)

DirectBlitRule ==
    Returned =>
        \A i \in EventsOf("CheckResize") :
            (~(DisplayExceeds /\ video.log[i].allow)
             /\ ~(DisplayLower /\ video.log[i].deinterlacing /\ video.log[i].allow)) =>
                /\ ~HasStage(video.log[i].post, kGLFilterResize)
                /\ ~HasStage(video.log[i].post, kGLFilterBicubic)

\* C10: after Init no bit is set in gl_features that is not set in the mask
\* the context reports.
FeaturesWithinHardware ==
    pc \in {"ready", "failed"} => BitsOf(video.gl_features) \subseteq BitsOf(hwFeatures)

\* Init on a context without pixel buffer objects, with an option string that
\* turns the frame buffer objects off.
FeaturesWithinHardwareWitness ==
    /\ pc = "ready"
    /\ hwFeatures = FullFeatures - kGLExtPBufObj
    /\ Contains(video.options, "NOFBO")
    /\ ~HasFeat(video.gl_features, kGLExtFBufObj)
    /\ HasFeat(video.gl_features, kGLExtFragProg)

(***************************************************************************)
(* Option strings.                                                         *)
(***************************************************************************)
\* The bit a disable-flag names, 0 for any other word.
FlagBit(word) ==
    CASE word = "nopbo"   -> kGLExtPBufObj
      [] word = "nofbo"   -> kGLExtFBufObj
      [] word = "nofrag"  -> kGLExtFragProg
      [] word = "norect"  -> kGLExtRect
      [] word = "noycbcr" -> kGLMesaYCbCr
      [] OTHER -> 0

\* options is "opengloptions=" followed by disable-flags separated by commas.
IsFlagList(options) ==
    /\ Len(options) >= 3
    /\ Len(options) % 2 = 1
    /\ options[1] = "opengloptions"
    /\ options[2] = "="
    /\ \A i \in 3..Len(options) :
          IF i % 2 = 1 THEN FlagBit(ToLowerAtom(options[i])) # 0
          ELSE options[i] = ","

\* The bits of the flags written in the list.
FlagBitsOf(options) ==
    {FlagBit(ToLowerAtom(options[i])) : i \in 3..Len(options)} \ {0}

\* C11: when the options token carries a comma-separated list of
\* disable-flags and the context reports every feature, the negotiated mask
\* is the full set without the bit of any flag of the list, and with every
\* other bit.
DisableFlagsAllCleared ==
    (pc \in {"ready", "failed"} /\ hwFeatures = FullFeatures
        /\ IsFlagList(video.options))
    => BitsOf(video.gl_features) = BitsOf(FullFeatures) \ FlagBitsOf(video.options)

(***************************************************************************)
(* Properties of the frames.                                               *)
(***************************************************************************)
\* C12: while a hardware deinterlacer with K reference textures is
\* installed, refsNeeded is K less the number of frames accepted with
\* hardware deinterlacing set since it was installed, and 0 once that many
\* have come; it is never negative.
RefsNeededCountsDown ==
    Returned =>
        /\ video.refsNeeded >= 0
        /\ video.hardwareDeinterlacer # ""
           => video.refsNeeded =
                 IF video.refUploads < RefSize(video.hardwareDeinterlacer)
                 THEN RefSize(video.hardwareDeinterlacer) - video.refUploads
                 ELSE 0

\* One frame more than the reference textures has been accepted.
RefsNeededCountsDownWitness ==
    /\ pc = "ready"
    /\ video.hardwareDeinterlacer = "opengllinearblend"
    /\ video.hardwareDeinterlacing
    /\ video.refUploads > RefSize(video.hardwareDeinterlacer)
    /\ video.refsNeeded = 0
    /\ \E i \in EventsOf("UpdateTexture") : TRUE

\* The slots of the reference textures that hold an uploaded frame.
FilledSlots ==
    {i \in 1..Len(video.referenceTextures) :
        video.texdata[video.referenceTextures[i]] # 0}

\* C13: with a deinterlacer of K reference textures installed, after N frames
\* accepted with hardware deinterlacing set there are min(N, K) reference
\* textures that hold an uploaded frame, the later frame in the lower slot
\* and all of them older than the input; when refsNeeded is 0 every
\* reference texture holds one.
ReferencesHoldHistory ==
    (Returned /\ video.hardwareDeinterlacer # "" /\ video.referenceTextures # <<>>)
    => /\ Cardinality(FilledSlots) =
             IF video.refUploads < Len(video.referenceTextures)
             THEN video.refUploads ELSE Len(video.referenceTextures)
       /\ \A i, j \in FilledSlots :
             i < j => video.texdata[video.referenceTextures[i]]
                         > video.texdata[video.referenceTextures[j]]
       /\ \A i \in FilledSlots :
             video.texdata[video.referenceTextures[i]]
                < video.texdata[video.inputTextures[1]]
       /\ video.refsNeeded = 0 => FilledSlots = 1..Len(video.referenceTextures)

\* C14: an UpdateInputFrame whose frame differs from the configured geometry
\* in width, height or pixel format, or has a width or height below 1,
\* leaves the input texture, the contents of every texture, the reference
\* textures and their order, refsNeeded, inputUpdated and currentFrameNum as
\* they were, and updates no texture.
MismatchedFrameDropped ==
    Returned =>
        \A i \in EventsOf("frame") :
            ~ValidFrame(video, video.log[i].frame)
            => /\ FrameSnap(video) = video.log[1].frames
               /\ EventsOf("UpdateTexture") = {}

\* A frame of the wrong width arrives while a frame is waiting to be drawn
\* and the reference textures are in use.
MismatchedFrameDroppedWitness ==
    /\ pc = "ready"
    /\ \E i \in EventsOf("frame") :
          video.log[i].frame.width # video.actual_video_dim.w
    /\ video.hardwareDeinterlacing
    /\ Len(video.referenceTextures) = 2
    /\ video.refsNeeded > 0
    /\ video.inputUpdated

\* The stages a DrawBitmap was issued for, in the order of the calls.
DrawnStages ==
    [k \in 1..Cardinality(EventsOf("DrawBitmap")) |->
        video.log[CHOOSE i \in EventsOf("DrawBitmap") :
                     Cardinality({j \in EventsOf("DrawBitmap") : j <= i}) = k].type]

\* C15: a PrepareFrame on an instance without an input texture or without a
\* stage makes no call on the context and leaves currentFrameNum and
\* inputUpdated alone; any other PrepareFrame draws every stage of the graph
\* once, in pipeline order, and ends with currentFrameNum equal to its frame
\* argument and inputUpdated false.
PrepareFrameAllOrNothing ==
    Returned =>
        \A i \in EventsOf("frame number") :
            IF video.log[1].frames.inputTextures = <<>> \/ FilterOrder(video) = <<>>
            THEN /\ EventsOf("DrawBitmap") = {}
                 /\ ~video.outsideLock
                 /\ FrameSnap(video) = video.log[1].frames
            ELSE /\ DrawnStages = FilterOrder(video)
                 /\ ~video.outsideLock
                 /\ video.currentFrameNum = video.log[i].frame
                 /\ ~video.inputUpdated

\* A frame that was uploaded is drawn through a graph of two stages, under a
\* number that differs from the one drawn before.
PrepareFrameAllOrNothingWitness ==
    /\ pc = "ready"
    /\ \E i \in EventsOf("frame number") :
          /\ video.log[1].frames.inputUpdated
          /\ video.log[1].frames.currentFrameNum > 0
          /\ video.log[1].frames.currentFrameNum # video.log[i].frame
    /\ Len(DrawnStages) = 2

(***************************************************************************)
(* Properties of Init.                                                     *)
(***************************************************************************)
\* C16: Init returns false only when its fallback, an input texture with a
\* single resize stage, could not be built; in every other case it returns
\* true and leaves a pipeline, an input texture and at least one stage.
InitFailsOnlyWithoutFallback ==
    (Returned /\ video.log # <<>> /\ video.log[1].ev = "Init")
    => /\ pc = "failed" => \E i \in EventsOf("Fallback") : ~video.log[i].ok
       /\ pc = "ready" => video.inputTextures # <<>> /\ FilterOrder(video) # <<>>

\* Init was given 720x480 video for a 1920x1080 display with "openglbicubic"
\* on a context with every feature, and no creation call has been refused.
BicubicScenario ==
    /\ pc = "ready"
    /\ hwFeatures = FullFeatures
    /\ Contains(video.options, "openglbicubic")
    /\ video.actual_video_dim = QSize(720, 480)
    /\ video.display_video_rect = QSize(1920, 1080)
    /\ video.refusals = 0

\* Init has left, or PrepareFrame has drawn, the stages of `order'.
GraphIs(order) ==
    /\ video.log[1].ev = "Init" => FilterOrder(video) = order
    /\ (video.log[1].ev = "PrepareFrame" /\ FilterOrder(video) = order)
       => DrawnStages = order

\* C17, as stated: in the bicubic scenario Init leaves the two stages
\* YUV2RGB and bicubic, and a PrepareFrame on that graph makes 2 draw calls.
BicubicTwoStages ==
    BicubicScenario =>
        /\ GraphIs(<<kGLFilterYUV2RGB, kGLFilterBicubic>>)
        /\ video.log[1].ev = "PrepareFrame" => Len(DrawnStages) = 2

\* C17, for frames that are not decoded in hardware: in the bicubic scenario
\* with hw_accel false Init leaves the two stages YUV2RGB and bicubic, in
\* that order and without a resize stage, and a PrepareFrame on that graph
\* makes 2 draw calls, one for each.
BicubicTwoStagesSoftwareFrames ==
    (BicubicScenario /\ ~video.using_hardwaretex) =>
        GraphIs(<<kGLFilterYUV2RGB, kGLFilterBicubic>>)

\* A frame has been uploaded and drawn through the two stages.
BicubicTwoStagesWitness ==
    /\ BicubicScenario
    /\ ~video.using_hardwaretex
    /\ video.log[1].ev = "PrepareFrame"
    /\ DrawnStages = <<kGLFilterYUV2RGB, kGLFilterBicubic>>
    /\ video.uploads > 0

\* The names of the context that denote a fragment program.
Programs == {h \in 1..Len(video.names) : video.names[h] = "program"}

\* C18: when the negotiated features lack fragment programs, the graph of a
\* ready instance is the single stage resize, whatever was called since
\* Init, no stage holds a fragment program and the context has never been
\* asked for one.
NoFragProgSingleResize ==
    (pc = "ready" /\ ~HasFeat(video.gl_features, kGLExtFragProg))
    => /\ FilterOrder(video) = <<kGLFilterResize>>
       /\ video.filters[kGLFilterResize].fragmentPrograms = <<>>
       /\ Programs = {}
       /\ \A i \in 1..Len(video.log) :
             video.log[i].ev \in {"AddFilter", "CheckResize", "OptimiseFilters"}
             => \A h \in 1..Len(video.log[i].post.names) :
                   video.log[i].post.names[h] # "program"

\* Bicubic was asked for and a deinterlacer has been refused on a context
\* without fragment programs.
NoFragProgSingleResizeWitness ==
    /\ pc = "ready"
    /\ ~HasFeat(video.gl_features, kGLExtFragProg)
    /\ Contains(video.options, "openglbicubic")
    /\ video.log[1].ev = "AddDeinterlacer"
    /\ ~video.ok
    /\ video.hardwareDeinterlacing
    /\ FilterOrder(video) = <<kGLFilterResize>>

\* C19: for a video of 1088 lines the working height is 1080: video_dim and
\* the frame buffer rectangle have height 1080, and a CheckResize for a
\* display of height 1080 with deinterlacing on asks for no resize stage.
WorkingHeight1080 ==
    (Returned /\ pc # "new" /\ video.actual_video_dim.h = 1088)
    => /\ video.video_dim.h = 1080
       /\ video.frameBufferRect.h = 1080
       /\ \A i \in EventsOf("CheckResize") :
             (/\ video.log[i].deinterlacing
              /\ video.log[i].allow
              /\ video.display_video_rect.h = 1080)
             => \A j \in EventsOf("AddFilter") :
                   video.log[j].filter # kGLFilterResize

\* Deinterlacing has been switched on for 1920x1088 video on a 1920x1080
\* display, and the graph is still the single stage YUV2RGB.
WorkingHeight1080Witness ==
    /\ pc = "ready"
    /\ video.actual_video_dim = QSize(1920, 1088)
    /\ video.display_video_rect = QSize(1920, 1080)
    /\ video.log[1].ev = "SetDeinterlacing"
    /\ video.hardwareDeinterlacing
    /\ \E i \in EventsOf("CheckResize") : video.log[i].deinterlacing
    /\ FilterOrder(video) = <<kGLFilterYUV2RGB>>

(***************************************************************************)
(* The context lock.                                                       *)
(***************************************************************************)
\* C20: every call that reaches the context (creation, deletion, texture
\* filter, upload, draw) is made by a member function that holds an
\* OpenGLLocker at that moment.
GpuCallsUnderLock == ~video.outsideLock

(***************************************************************************)
(* Properties of the fields Init settles.                                  *)
(***************************************************************************)
\* C21: once Init has assigned gl_features, no call changes it: every step
\* taken from an instance that has been initialised leaves it as it was.
FeaturesAssignedOnce ==
    [][pc # "new" => video'.gl_features = video.gl_features]_vars

\* An instance whose features were narrowed by its options has been
\* reconfigured and deleted, and still carries them.
FeaturesAssignedOnceWitness ==
    /\ pc = "deleted"
    /\ video.gl_features # kGLFeatNone
    /\ video.gl_features # hwFeatures
    /\ video.gl_features = NegotiateFeatures(video.options, hwFeatures)

(***************************************************************************)
(* Properties of the fragment programs.                                    *)
(***************************************************************************)
\* An instance of which nothing is known but the texture geometry of e.
GeometryOnly(e) ==
    [NewInstance EXCEPT !.textureRects = e.textureRects,
                        !.inputTextureSize = e.inputTextureSize,
                        !.video_dim = e.video_dim]

LastStageHoldsNoBuffers ==
    \A i \in EventsOf("OptimiseFilters") :
        (video.log[i].ok /\ FilterOrder(video.log[i].post) # <<>>) =>
            /\ video.log[i].post.filters[
                   FilterOrder(video.log[i].post)[
                       Len(FilterOrder(video.log[i].post))]].frameBuffers = <<>>
            /\ video.log[i].post.filters[
                   FilterOrder(video.log[i].post)[
                       Len(FilterOrder(video.log[i].post))]].frameBufferTextures = <<>>


(***************************************************************************)
(* Properties of the texture handles.                                      *)
(***************************************************************************)
\* The intermediate textures of a stage that is in the graph.
TexturesOfStage(f) ==
    IF video.filters[f].present /\ ~video.filters[f].isNull
    THEN video.filters[f].frameBufferTextures ELSE <<>>

\* The handles in the texture slots: the input slot, the reference ring,
\* the stages' intermediate textures and the helper slot.
TextureSlots ==
    video.inputTextures \o video.referenceTextures
        \o TexturesOfStage(kGLFilterYUV2RGB) \o TexturesOfStage(kGLFilterResize)
        \o TexturesOfStage(kGLFilterBicubic)
        \o (IF video.helperTexture # 0 THEN <<video.helperTexture>> ELSE <<>>)

\* h names a texture that has not been deleted.
IsLiveTexture(h) == h \in 1..Len(video.names) /\ video.names[h] = "texture"

\* C24: the texture slots hold pairwise distinct handles of textures that
\* have not been deleted, and every texture PrepareFrame binds for a draw is
\* such a handle held by a slot.
TextureHandlesOwnedOnce ==
    Returned =>
        /\ \A i \in 1..Len(TextureSlots) :
              /\ IsLiveTexture(TextureSlots[i])
              /\ \A j \in 1..Len(TextureSlots) :
                    TextureSlots[i] = TextureSlots[j] => i = j
        /\ \A e \in EventsOf("DrawBitmap") :
              \A k \in 1..Len(video.log[e].textures) :
                  /\ IsLiveTexture(video.log[e].textures[k])
                  /\ \E i \in 1..Len(TextureSlots) :
                        TextureSlots[i] = video.log[e].textures[k]


\* PrepareFrame has drawn the YUV2RGB stage from the input texture and two
\* reference textures after the ring has turned, while a stage holds an
\* intermediate texture.
TextureHandlesOwnedOnceWitness ==
    /\ pc = "ready"
    /\ video.log[1].ev = "PrepareFrame"
    /\ video.inputTextures # <<>> /\ video.inputTextures[1] # 1
    /\ Len(video.referenceTextures) = 2
    /\ Len(TextureSlots) >= 4
    /\ \E e \in EventsOf("DrawBitmap") : Len(video.log[e].textures) = 3


(***************************************************************************)
(* Properties of the fallback.                                             *)
(***************************************************************************)
\* C25: an operation after Init that starts on a graph without the YUV2RGB
\* stage leaves the graph without it, and AddDeinterlacer on such a graph
\* returns false, generates no program, makes no creation call and leaves
\* the GL names and the reference textures as they were.
FallbackIsOneWay ==
    (Returned /\ video.log # <<>> /\ video.log[1].ev # "Init"
        /\ ~video.log[1].pre.filters[kGLFilterYUV2RGB].present)
    => /\ Count(video, kGLFilterYUV2RGB) = 0
       /\ video.log[1].ev = "AddDeinterlacer"
          => /\ ~video.ok
             /\ EventsOf("GetProgramString") = {}
             /\ video.names = video.log[1].pre.names
             /\ video.refusals = video.log[1].pre.refusals
             /\ video.referenceTextures = <<>>
             /\ video.hardwareDeinterlacer = ""

\* AddDeinterlacer has returned on an instance whose Init succeeded with
\* fragment programs available but without the YUV2RGB stage.
FallbackIsOneWayWitness ==
    /\ pc = "ready"
    /\ video.log[1].ev = "AddDeinterlacer"
    /\ HasFeat(video.gl_features, kGLExtFragProg)
    /\ ~video.log[1].pre.filters[kGLFilterYUV2RGB].present
    /\ FilterOrder(video) # <<>>
    /\ video.inputTextures # <<>>


(***************************************************************************)
(* Properties of the rotation of the reference textures.                   *)
(***************************************************************************)
\* The input texture and the reference textures of a frame snapshot, as a set.
RingHandles(frames) ==
    {frames.inputTextures[i] : i \in 1..Len(frames.inputTextures)}
        \cup {frames.referenceTextures[i] : i \in 1..Len(frames.referenceTextures)}

\* The ring of `after' is the ring of `before' turned by one slot.
TurnedByOne(before, after) ==
    /\ Len(after.referenceTextures) = Len(before.referenceTextures)
    /\ Len(after.inputTextures) = Len(before.inputTextures)
    /\ after.referenceTextures[1] = before.inputTextures[1]
    /\ \A i \in 1..(Len(before.referenceTextures) - 1) :
          after.referenceTextures[i + 1] = before.referenceTextures[i]
    /\ after.inputTextures[1]
          = before.referenceTextures[Len(before.referenceTextures)]
    /\ RingHandles(after) = RingHandles(before)

\* C26: an UpdateInputFrame that accepts its frame with hardware
\* deinterlacing set and at least 2 reference textures turns the ring by one
\* slot (the input texture becomes reference texture 0, every reference
\* texture moves one slot up, the oldest becomes the input texture, the set
\* of handles is the same) and writes only the new input texture; without
\* reference textures, or with hardware deinterlacing off, the input texture
\* and the reference textures stay as they were.
UploadRotatesByOne ==
    Returned =>
        \A i \in EventsOf("frame") :
            ValidFrame(video, video.log[i].frame) =>
                /\ (video.hardwareDeinterlacing
                       /\ Len(video.log[1].frames.referenceTextures) >= 2)
                   => /\ TurnedByOne(video.log[1].frames, FrameSnap(video))
                      /\ \A e \in EventsOf("UpdateTexture") :
                            video.log[e].texture
                               = video.log[1].frames.referenceTextures[
                                     Len(video.log[1].frames.referenceTextures)]
                /\ (~video.hardwareDeinterlacing
                       \/ video.log[1].frames.referenceTextures = <<>>)
                   => /\ video.inputTextures = video.log[1].frames.inputTextures
                      /\ video.referenceTextures
                            = video.log[1].frames.referenceTextures

\* The second frame in a row has been written after a turn of a ring of two
\* reference textures.
UploadRotatesByOneWitness ==
    /\ pc = "ready"
    /\ video.log[1].ev = "UpdateInputFrame"
    /\ video.hardwareDeinterlacing
    /\ Len(video.referenceTextures) = 2
    /\ video.refUploads >= 2
    /\ video.inputTextures # video.log[1].frames.inputTextures
    /\ \E e \in EventsOf("UpdateTexture") :
          video.log[e].texture = video.inputTextures[1]


(***************************************************************************)
(* Properties of the drawing of a frame.                                   *)
(***************************************************************************)
\* The index of the program the claim gives the YUV2RGB stage for a call
\* with the arguments a.
FieldProgram(a) ==
    IF ~(video.hardwareDeinterlacing
           /\ Len(video.filters[kGLFilterYUV2RGB].fragmentPrograms) = 3
           /\ video.refsNeeded = 0)
    THEN 0
    ELSE IF (a.scan = kScan_Interlaced /\ a.topfieldfirst)
               \/ (a.scan = kScan_Intr2ndField /\ ~a.topfieldfirst)
    THEN 1
    ELSE IF (a.scan = kScan_Interlaced /\ ~a.topfieldfirst)
               \/ (a.scan = kScan_Intr2ndField /\ a.topfieldfirst)
    THEN 2
    ELSE 0

\* C27: PrepareFrame draws the YUV2RGB stage with program 1 or 2 only with
\* hardware deinterlacing set, 3 programs in the stage and refsNeeded 0:
\* program 1 for (interlaced, top field first) and (second field, bottom
\* field first), program 2 for the two opposite cases; otherwise with
\* program 0.  It draws the bicubic stage with its program 0 and the resize
\* stage with no program.
ProgramFollowsField ==
    Returned =>
        \A a \in EventsOf("arguments") : \A e \in EventsOf("DrawBitmap") :
            video.log[e].program =
                IF video.log[e].type = kGLFilterResize THEN 0
                ELSE IF video.log[e].type = kGLFilterBicubic
                THEN video.filters[kGLFilterBicubic].fragmentPrograms[1]
                ELSE video.filters[kGLFilterYUV2RGB].fragmentPrograms[
                         FieldProgram(video.log[a]) + 1]

\* The second field of a top-field-first frame has been drawn with program 2
\* once the two reference textures of the linear blend were filled.
ProgramFollowsFieldWitness ==
    /\ pc = "ready"
    /\ video.hardwareDeinterlacer = "opengllinearblend"
    /\ video.hardwareDeinterlacing
    /\ video.refUploads >= 2
    /\ \E a \in EventsOf("arguments") :
          /\ video.log[a].scan = kScan_Intr2ndField
          /\ video.log[a].topfieldfirst
    /\ \E e \in EventsOf("DrawBitmap") :
          /\ video.log[e].type = kGLFilterYUV2RGB
          /\ video.log[e].program
                = video.filters[kGLFilterYUV2RGB].fragmentPrograms[3]


\* The place in the log of the k-th DrawBitmap of the last call.
DrawEvent(k) ==
    CHOOSE i \in EventsOf("DrawBitmap") :
        Cardinality({j \in EventsOf("DrawBitmap") : j <= i}) = k

\* The textures a stage is given by the stage before it in pipeline order,
\* the first stage by the input slot.
InputsOfStage(k) ==
    IF k = 1 THEN video.inputTextures
    ELSE video.filters[FilterOrder(video)[k - 1]].frameBufferTextures

\* C28: a PrepareFrame on an instance with an input texture and n stages
\* makes n draw calls, the k-th for the k-th stage in pipeline order: the
\* last with target 0, every earlier one with the stage's first frame buffer
\* as target, a stage after the first with the frame buffer textures of the
\* stage before it as its first textures (and every one of them); a stage
\* whose outputBuffer is kFrameBufferObject never draws with target 0.
\* (The claim as stated; the code violates it.)
StagesDrawToOwnTargets ==
    (Returned /\ video.log # <<>> /\ video.log[1].ev = "PrepareFrame"
        /\ video.inputTextures # <<>> /\ FilterOrder(video) # <<>>)
    => /\ Cardinality(EventsOf("DrawBitmap")) = Len(FilterOrder(video))
       /\ \A k \in 1..Len(FilterOrder(video)) :
             /\ video.log[DrawEvent(k)].type = FilterOrder(video)[k]
             /\ video.log[DrawEvent(k)].target =
                   IF k = Len(FilterOrder(video)) THEN 0
                   ELSE video.filters[FilterOrder(video)[k]].frameBuffers[1]
             /\ k > 1 =>
                   /\ InputsOfStage(k) # <<>>
                   /\ SubSeq(video.log[DrawEvent(k)].textures, 1,
                             Len(InputsOfStage(k))) = InputsOfStage(k)
             /\ video.filters[FilterOrder(video)[k]].outputBuffer
                    = "kFrameBufferObject"
                => video.log[DrawEvent(k)].target # 0


(***************************************************************************)
(* Properties of the texture filters.                                      *)
(***************************************************************************)
\* The intermediate textures the last stage draws from.
LastStageInputs ==
    IF Len(FilterOrder(video)) < 2 THEN <<>>
    ELSE video.filters[FilterOrder(video)[Len(FilterOrder(video)) - 1]]
             .frameBufferTextures

\* C29: after every operation the texture in the input slot is filtered
\* GL_LINEAR when the graph has 0 or 1 stages and GL_NEAREST when it has 2
\* or more, and the intermediate textures the last stage draws from are
\* filtered GL_LINEAR.  (The claim as stated; the code violates it.)
InputFilterFollowsGraph ==
    (pc = "ready" /\ video.inputTextures # <<>>)
    => /\ video.texfilt[video.inputTextures[1]] =
             IF FiltersSize(video) <= 1 THEN GL_LINEAR ELSE GL_NEAREST
       /\ \A i \in 1..Len(LastStageInputs) :
             video.texfilt[LastStageInputs[i]] = GL_LINEAR


(***************************************************************************)
(* Properties of the hardware bob.                                         *)
(***************************************************************************)
\* The arguments of the PrepareFrame whose log v holds, and the signs of the
\* shifts it has applied for the hardware bob.
FrameArgs(v) ==
    {v.log[i] : i \in {j \in 1..Len(v.log) : v.log[j].ev = "arguments"}}
BobShifts(v) ==
    {v.log[i].bob : i \in {j \in 1..Len(v.log) : v.log[j].ev = "vrect.adjust"}}

\* C30: when the first field of a frame (scan = kScan_Interlaced) and then
\* its second field (scan = kScan_Intr2ndField) are drawn with the same
\* topfieldfirst, the shifts the hardware bob applies in the two calls have
\* opposite signs.  (The claim as stated; the code violates it.)
BobShiftFollowsScan ==
    [][\A a \in FrameArgs(video), b \in FrameArgs(video') :
          (a.scan = kScan_Interlaced /\ b.scan = kScan_Intr2ndField
              /\ a.topfieldfirst = b.topfieldfirst)
          => \A x \in BobShifts(video), y \in BobShifts(video') : x * y < 0]_vars


(***************************************************************************)
(* Properties of the programs of a stage.                                  *)
(***************************************************************************)
\* The number of programs of a stage.
ProgramCount(f) == Len(video.filters[f].fragmentPrograms)

\* C31: the YUV2RGB stage holds 1 program while no hardware deinterlacer is
\* installed and 3 while one is; an AddDeinterlacer that returns true leaves
\* 3, one that returns false leaves 1, no reference texture, refsNeeded 0
\* and no deinterlacer name; the bicubic stage holds 1 program and the
\* resize stage none; so prog_ref of PrepareFrame, for every scan type and
\* field order, is an index of the stage's program list.
ProgramCountsFollowDeinterlacer ==
    (Returned /\ pc = "ready") =>
        /\ Count(video, kGLFilterYUV2RGB) = 1 =>
              /\ ProgramCount(kGLFilterYUV2RGB)
                    = IF video.hardwareDeinterlacer = "" THEN 1 ELSE 3
              /\ \A scan \in AllScanTypes, topfieldfirst \in BOOLEAN :
                    ProgRef(video, video.filters[kGLFilterYUV2RGB], scan,
                            topfieldfirst) < ProgramCount(kGLFilterYUV2RGB)
        /\ Count(video, kGLFilterBicubic) = 1 => ProgramCount(kGLFilterBicubic) = 1
        /\ Count(video, kGLFilterResize) = 1 => ProgramCount(kGLFilterResize) = 0
        /\ (video.log[1].ev = "AddDeinterlacer" /\ video.ok)
           => ProgramCount(kGLFilterYUV2RGB) = 3
        /\ (video.log[1].ev = "AddDeinterlacer" /\ ~video.ok)
           => /\ Count(video, kGLFilterYUV2RGB) = 1
                 => ProgramCount(kGLFilterYUV2RGB) = 1
              /\ video.referenceTextures = <<>>
              /\ video.refsNeeded = 0
              /\ video.hardwareDeinterlacer = ""

\* An AddDeinterlacer has failed on the second field program, after the
\* reference textures and the first field program were created, on an
\* instance that had a deinterlacer installed.
ProgramCountsFollowDeinterlacerWitness ==
    /\ pc = "ready"
    /\ video.log[1].ev = "AddDeinterlacer"
    /\ ~video.ok
    /\ video.refused
    /\ Len(video.log[1].pre.filters[kGLFilterYUV2RGB].fragmentPrograms) = 3
    /\ Cardinality(EventsOf("GetProgramString")) = 2
    /\ Count(video, kGLFilterYUV2RGB) = 1


(***************************************************************************)
(* Properties of the GL names.                                             *)
(***************************************************************************)
\* The names the slots of the instance hold.
HeldHandles ==
    Range(video.inputTextures) \cup Range(video.referenceTextures)
        \cup (IF video.helperTexture # 0 THEN {video.helperTexture} ELSE {})
        \cup UNION {FilterHandles(video.filters[f]) :
                       f \in {g \in FilterTypes : video.filters[g].present
                                                  /\ ~video.filters[g].isNull}}

\* The names the context has handed out and not seen deleted.
LiveHandles == {h \in 1..Len(video.names) : video.names[h] # "free"}

\* C32: between operations every name created and not deleted is held by a
\* slot of the instance, and after Teardown (the destructor, or an Init that
\* returns false) none is left.  (The claim as stated; the code violates
\* it.)
NoHandleLeaked ==
    /\ pc = "ready" => LiveHandles \subseteq HeldHandles
    /\ pc \in {"failed", "deleted"} => LiveHandles = {}


(***************************************************************************)
(* Properties of the OpenGLFilter objects.                                 *)
(***************************************************************************)
\* C33: no operation deletes an OpenGLFilter object a second time or reads
\* one through a pointer that was deleted or set to NULL.  (The claim as
\* stated; the code violates it.)
FilterFreedOnce ==
    /\ "filter deleted twice" \notin video.ub
    /\ "null filter dereferenced" \notin video.ub
    /\ "filter->outputBuffer" \notin video.ub


(***************************************************************************)
(* Properties of the result of Init.                                       *)
(***************************************************************************)
\* C34: when Init has returned true the graph holds at least one stage and
\* inputTextures holds exactly one texture, so that PrepareFrame is not
\* skipped and inputTextures[0] exists.  (The claim as stated; the code
\* violates it.)
InitSuccessLeavesGraphAndInput ==
    (pc = "ready" /\ video.log # <<>> /\ video.log[1].ev = "Init")
    => /\ FiltersSize(video) >= 1
       /\ Len(video.inputTextures) = 1
       /\ IsLiveTexture(video.inputTextures[1])

(***************************************************************************)
(* Properties of the stage set.                                            *)
(***************************************************************************)
\* C35: in every reachable state, and before and after every CheckResize,
\* the resize stage and the bicubic stage are never both present, so the
\* graph holds at most two stages.
ResizeAndBicubicExclusive ==
    /\ ~(Count(video, kGLFilterResize) = 1 /\ Count(video, kGLFilterBicubic) = 1)
    /\ FiltersSize(video) <= 2
    /\ \A i \in EventsOf("CheckResize") :
          /\ ~(HasStage(video.log[i].pre, kGLFilterResize)
               /\ HasStage(video.log[i].pre, kGLFilterBicubic))
          /\ ~(HasStage(video.log[i].post, kGLFilterResize)
               /\ HasStage(video.log[i].post, kGLFilterBicubic))

\* A CheckResize that found a resize stage has replaced it by a bicubic stage.
ResizeAndBicubicExclusiveWitness ==
    /\ pc = "ready"
    /\ Count(video, kGLFilterBicubic) = 1
    /\ \E i \in EventsOf("CheckResize") :
          /\ HasStage(video.log[i].pre, kGLFilterResize)
          /\ ~HasStage(video.log[i].post, kGLFilterResize)
          /\ HasStage(video.log[i].post, kGLFilterBicubic)

(***************************************************************************)
(* Properties of the texture array of PrepareFrame.                        *)
(***************************************************************************)
\* C36: for every stage of every PrepareFrame call, the textures gathered
\* for the draw call (the inputs of the stage, the reference textures for
\* the colourspace stage under hardware deinterlacing, the helper texture
\* for the bicubic stage) are at most 4, the size of the array textures.
TextureArrayFits ==
    /\ "textures[4]" \notin video.ub
    /\ \A i \in EventsOf("DrawBitmap") : Len(video.log[i].textures) <= 4
    /\ Len(video.inputTextures) + Len(video.referenceTextures) <= 4
    /\ \A f \in FilterTypes :
          Count(video, f) = 1 =>
              Len(video.filters[f].frameBufferTextures) + 1 <= 4

\* A PrepareFrame has drawn the colourspace stage from the input texture
\* and both reference textures.
TextureArrayFitsWitness ==
    /\ pc = "ready"
    /\ video.hardwareDeinterlacing
    /\ \E i \in EventsOf("DrawBitmap") :
          /\ video.log[i].type = kGLFilterYUV2RGB
          /\ Len(video.log[i].textures) = 3

(***************************************************************************)
(* Properties of an upload without a buffer.                               *)
(***************************************************************************)
\* C37: an UpdateInputFrame whose frame passes the checks but for which the
\* context hands out no buffer for the input texture uploads nothing and
\* leaves the order of the reference textures, the input texture,
\* refsNeeded and inputUpdated as they were before the call.  (The claim as
\* stated; the code violates it.)
NullBufferLeavesFrames ==
    (Returned /\ video.log # <<>> /\ video.log[1].ev = "UpdateInputFrame") =>
        \A i \in EventsOf("frame") :
            (ValidFrame(video, video.log[i].frame)
             /\ EventsOf("UpdateTexture") = {}) =>
                /\ video.texdata = video.log[1].frames.texdata
                /\ video.referenceTextures = video.log[1].frames.referenceTextures
                /\ video.inputTextures = video.log[1].frames.inputTextures
                /\ video.refsNeeded = video.log[1].frames.refsNeeded
                /\ video.inputUpdated = video.log[1].frames.inputUpdated

(***************************************************************************)
(* Properties of ChannelImporter::InsertChannels.                          *)
(***************************************************************************)
\* The channels of a transport list with the frequency of their transport,
\* in the order of the list.
RECURSIVE ChannelsOf(_)
ChannelsOf(list) ==
    IF list = <<>> THEN <<>>
    ELSE [k \in 1..Len(Head(list).channels) |->
             <<Head(list).frequency, Head(list).channels[k]>>]
         \o ChannelsOf(Tail(list))

Frequencies(list) == [k \in 1..Len(list) |-> list[k].frequency]

\* Whether part is what is left of whole when some of its elements go.
IsSubSeq(part, whole) ==
    LET Chosen(x) == \E k \in 1..Len(part) : part[k] = x
    IN  part = SelectSeq(whole, Chosen)

\* What the call has appended to `filtered'.
FilteredByCall ==
    SubSeq(importer.filtered, Len(importer.given) + 1, Len(importer.filtered))

\* The channels ChannelUtil::CreateChannel has stored, as the scan had them.
CreatedByCall ==
    [k \in 1..Len(importer.created) |->
        <<importer.transports[importer.created[k].i].frequency,
          importer.transports[importer.created[k].i]
              .channels[importer.created[k].j]>>]

\* C38: when InsertChannels returns, every channel of every transport it
\* was given is in exactly one of three places (stored in the database,
\* appended to `filtered', in the list returned); the channels of the list
\* returned and those appended to `filtered' are with their transport and
\* in the order they had; and with the action kInsertIgnoreAll no channel
\* of the type is stored.
InsertChannelsPartitions ==
    importer.state = "returned" =>
        /\ SubSeq(importer.filtered, 1, Len(importer.given)) = importer.given
        /\ \A p \in Range(ChannelsOf(importer.transports)) :
              Cardinality({k \in 1..Len(CreatedByCall) : CreatedByCall[k] = p})
              + Cardinality({k \in 1..Len(ChannelsOf(FilteredByCall)) :
                                ChannelsOf(FilteredByCall)[k] = p})
              + Cardinality({k \in 1..Len(ChannelsOf(importer.next_list)) :
                                ChannelsOf(importer.next_list)[k] = p}) = 1
        /\ Len(CreatedByCall) + Len(ChannelsOf(FilteredByCall))
              + Len(ChannelsOf(importer.next_list))
                  = Len(ChannelsOf(importer.transports))
        /\ IsSubSeq(ChannelsOf(importer.next_list), ChannelsOf(importer.transports))
        /\ IsSubSeq(ChannelsOf(FilteredByCall), ChannelsOf(importer.transports))
        /\ IsSubSeq(Frequencies(importer.next_list), Frequencies(importer.transports))
        /\ IsSubSeq(Frequencies(FilteredByCall), Frequencies(importer.transports))
        /\ importer.action = kInsertIgnoreAll =>
              \A k \in 1..Len(importer.created) :
                  ~IsType(CollectStats(importer.transports),
                          importer.transports[importer.created[k].i]
                              .channels[importer.created[k].j],
                          importer.type)

\* A call on two transports has returned with a channel of the first stored
\* and channels of both transports in the list returned.
InsertChannelsPartitionsWitness ==
    /\ importer.state = "returned"
    /\ Len(importer.transports) = 2
    /\ \E k \in 1..Len(importer.created) : importer.created[k].i = 1
    /\ Len(importer.next_list) = 2

\* The places in the log where the user answers Cancel All.
CancelAllAnswers ==
    {k \in 1..Len(importer.log) :
        importer.log[k].ev = "answer" /\ importer.log[k].answer = "Cancel All"}

\* C39: once the user has answered Cancel All to a question of an
\* InsertChannels call, the call stores no channel and shows no prompt, for
\* that channel and for every channel after it, and when it returns all of
\* them are in the list returned.  (The claim as stated; the code violates
\* it.)
CancelAllEndsInsertion ==
    \A k \in CancelAllAnswers :
        /\ \A m \in (k + 1)..Len(importer.log) :
              importer.log[m].ev \notin {"prompt", "created"}
        /\ importer.state = "returned" =>
              \A i \in 1..Len(importer.transports) :
                  \A j \in 1..Len(importer.transports[i].channels) :
                      (i > importer.log[k].i
                       \/ (i = importer.log[k].i /\ j >= importer.log[k].j)) =>
                          \E n \in 1..Len(ChannelsOf(importer.next_list)) :
                              ChannelsOf(importer.next_list)[n]
                                  = <<importer.transports[i].frequency,
                                      importer.transports[i].channels[j]>>

(***************************************************************************)
(* Properties of ChannelImporter::ComputeSuggestedChannelNum.              *)
(***************************************************************************)
\* The threads between the QMutexLocker and the return.
InCounterPath == {t \in Threads : suggest.thread[t].pc \in {"locked", "found"}}

\* C40: the number a call returns was not in the channel table for the
\* source of the channel when the call looked it up; the counter of a
\* source is read and written by the thread that holds the mutex only, and
\* does not go down: it is the last of the numbers returned for the source
\* from the counter, which are strictly increasing and whose texts differ
\* pairwise.
SuggestedNumbersIncrease ==
    /\ \A t \in Threads :
          suggest.thread[t].ret.chan_num # <<>> =>
              /\ suggest.thread[t].ret.free
              /\ suggest.thread[t].ret.checked = suggest.thread[t].ret.chan_num
    /\ Cardinality(InCounterPath) <= 1
    /\ \A t \in InCounterPath : suggest.last_free_lock = t
    /\ \A id \in SourceIds :
          /\ \A k \in 1..Len(suggest.returned[id]) :
                \A m \in (k + 1)..Len(suggest.returned[id]) :
                    /\ suggest.returned[id][k] < suggest.returned[id][m]
                    /\ Number(suggest.returned[id][k]) # Number(suggest.returned[id][m])
          /\ suggest.last_free_chan_num_map[id] =
                 IF suggest.returned[id] = <<>> THEN 0
                 ELSE suggest.returned[id][Len(suggest.returned[id])]

\* Both threads have had a number for source 1 from the counter, the second
\* after waiting for the mutex.
SuggestedNumbersIncreaseWitness ==
    /\ \A t \in Threads :
          /\ suggest.thread[t].pc = "idle"
          /\ suggest.thread[t].ret.counter
          /\ suggest.thread[t].ret.source_id = 1
    /\ suggest.thread[1].ret.chan_num # suggest.thread[2].ret.chan_num
    /\ Len(suggest.returned[1]) >= 2

=============================================================================
